---- MODULE Spec2Model ----
(***************************************************************************)
(* gist-memory: the storage-tier lifecycle (storage.py), the reinforcement *)
(* tracker it reads (reinforcement.py) and the link graph (links.py).      *)
(*                                                                         *)
(* Salience and every other float of the program is kept in thousandths    *)
(* (0.5 is 500); time is kept in whole days, the unit of                   *)
(* (datetime.now() - last).days.                                           *)
(***************************************************************************)
EXTENDS Integers, Sequences, FiniteSets, TLC

\* ---------------------------------------------------------------- bounds

\* the clock stops at this day
MaxDay == 8
\* record_access is not called on a memory that already has this many accesses
MaxAccess == 2
\* largest days_since_access drawn for the tier decision function
MaxDaysIn == 32
\* largest access_count drawn for the tier decision function
MaxAccessIn == 6
\* add_link is not called when the graph would hold more outbound entries
MaxLinks == 2

\* ------------------------------------------------------- program constants

\* TIER_CONFIG
hot_to_warm_days == 7
warm_to_cold_days == 30
hot_min_salience == 500
warm_min_salience == 300
promote_to_warm_accesses == 2
promote_to_hot_accesses == 5
promotion_window_days == 14

\* days_since of a memory that was never accessed
NeverAccessedDays == 999

\* StorageTier
HOT == "hot"
WARM == "warm"
COLD == "cold"
StorageTier == {HOT, WARM, COLD}

\* None, for a timestamp (last_accessed, tier_changed)
NoTime == -1
\* None, for archive_path
NoPath == "None"

MemIds == {"m1", "m2"}

Min(a, b) == IF a <= b THEN a ELSE b
Max(a, b) == IF a >= b THEN a ELSE b

\* an empty dict keyed by memory id
EmptyMap == [x \in {} |-> FALSE]

\* f with key k set to v (a dict assignment d[k] = v)
Put(f, k, v) == [x \in DOMAIN f \cup {k} |-> IF x = k THEN v ELSE f[x]]

\* ------------------------------------------------------------- YAML, dicts

\* A Python dict is the sequence of its <<key, value>> pairs in insertion
\* order; keys and values are strings.  An empty dict is <<>>.
DictKeys(d) == {d[i][1] : i \in 1..Len(d)}

DictGet(d, k, default) ==
    IF k \in DictKeys(d)
    THEN LET i == CHOOSE j \in 1..Len(d) : d[j][1] = k IN d[i][2]
    ELSE default

\* Python's == on two dicts: the same keys with the same values, in any order
DictEq(a, b) == {a[i] : i \in 1..Len(a)} = {b[i] : i \in 1..Len(b)}

\* the order yaml.dump(sort_keys=True) emits keys in
KeyOrder == <<"_archive_path", "_archived", "quotes", "reconstructable">>

\* yaml.dump(d, default_flow_style=False): a block-style document, one
\* "key: value" line per entry, sorted by key (sort_keys defaults to True)
YamlDumpSorted(d) ==
    LET present == SelectSeq(KeyOrder, LAMBDA k : k \in DictKeys(d))
    IN  [i \in 1..Len(present) |->
            [key |-> present[i], value |-> DictGet(d, present[i], "")]]

\* yaml.safe_load of a document: the dict of its lines, in document order
YamlSafeLoad(doc) == [i \in 1..Len(doc) |-> <<doc[i].key, doc[i].value>>]

\* ------------------------------------------------------------------ state

VARIABLES
    now,            \* datetime.now(), in days
    tracker,        \* ReinforcementTracker.data: memory id -> ReinforcementData
    tracking_file,  \* .reinforcement.json, what the tracker's _save last wrote
    data,           \* StorageManager.data: memory id -> StorageState
    storage_file,   \* .storage_tiers.json, what the manager's _save last wrote
    examples,       \* EXAMPLES_DIR: memory id -> the memory's YAML file
    archive,        \* .archive: path -> the archived verbatim document
    result,         \* what the last re-tiering, archive, restore, add_link
                    \* or remove_link call returned; any other call clears it
    archived_from,  \* memory id -> the verbatim its last archive_verbatim moved
    tin,            \* inputs of the tier decision
    tout,           \* its result
    links,          \* LinkManager.data: memory id -> MemoryLinks
    links_file,     \* .links.json, what the link manager's _save last wrote
    path_in,        \* arguments of the find_path call
    path_out,       \* what it returned
    sal_in,         \* a ReinforcementData entry calculate_salience is given
    sal_out,        \* what it returned
    chroma,         \* the ChromaDB collections gist_memories, markdown_chunks
    recall_in,      \* arguments of the last recall or recall_hybrid call
    recall_out      \* what it returned

vars == <<now, tracker, tracking_file, data, storage_file, examples, archive,
          result, archived_from, tin, tout, links, links_file, path_in,
          path_out, sal_in, sal_out, chroma, recall_in, recall_out>>

\* ---------------------------------------------------- reinforcement tracker

\* ReinforcementData(memory_id=memory_id)
ReinforcementData ==
    [access_count |-> 0, last_accessed |-> NoTime, linked_by |-> <<>>,
     repetition_count |-> 0, explicit_boost |-> 0, decay_immune |-> FALSE,
     usefulness_score |-> 0, initial_salience |-> 500]

\* ReinforcementTracker.get: the tracker's data after get(memory_id)
TrackerGet(trk, m) ==
    IF m \in DOMAIN trk THEN trk ELSE Put(trk, m, ReinforcementData)

\* a never-accessed memory's salience that counts the explicit boost
YamlSalience_Boosted(ex, entry, m) ==
    (IF ex[m].exists THEN ex[m].gist_salience ELSE entry.initial_salience)
        + entry.explicit_boost

\* load_memory_yaml(memory_id).get('gist', {}).get('salience', 0.5), or the
\* entry's initial_salience when no YAML file has that id
YamlSalience(ex, entry, m) ==
    IF ex[m].exists THEN ex[m].gist_salience ELSE entry.initial_salience

\* (datetime.now() - last).days
DaysSince(last, today) == today - last

\* a clamp that has no upper end
Clamp01_LowerOnly(dynamic) == Max(0, dynamic)

\* min(1.0, max(0.0, dynamic))
Clamp01(dynamic) == Min(1000, Max(0, dynamic))

\* ReinforcementTracker.calculate_salience on entry, in thousandths
calculate_salience(entry, ex, m, today) ==
    IF entry.access_count = 0
    THEN YamlSalience(ex, entry, m)
    ELSE
      LET base == entry.initial_salience
          access_boost == Min(150, entry.access_count * 10)
          days_since == IF entry.last_accessed # NoTime
                        THEN DaysSince(entry.last_accessed, today) ELSE 0
          link_boost == Min(200, Len(entry.linked_by) * 50)
          repetition_boost == Min(100, entry.repetition_count * 20)
          explicit == entry.explicit_boost
          usefulness_boost == Min(150, entry.usefulness_score)
          dynamic == base + access_boost + link_boost + repetition_boost
                     + explicit + usefulness_boost
          \* recency_factor = 1.0 / (1 + days_since * 0.1)
          decayed == IF entry.decay_immune THEN dynamic
                     ELSE (dynamic * 10) \div (10 + days_since)
      IN  Clamp01(decayed)

\* ReinforcementTracker.inspect: the fields calculate_tier reads
inspect(trk, ex, m, today) ==
    LET entry == TrackerGet(trk, m)[m]
    IN  [access_count |-> entry.access_count,
         last_accessed |-> entry.last_accessed,
         decay_immune |-> entry.decay_immune,
         current_salience |-> calculate_salience(entry, ex, m, today)]

\* ------------------------------------------------------ tier decision

\* "Decay immunity means never cold": the tier of a decay-immune memory
ImmuneTier_ColdWhenLow(salience) ==
    IF salience >= hot_min_salience
    THEN [tier |-> HOT, reason |-> "decay-immune, high salience"]
    ELSE [tier |-> COLD, reason |-> "decay-immune"]

ImmuneTier(salience) ==
    IF salience >= hot_min_salience
    THEN [tier |-> HOT, reason |-> "decay-immune, high salience"]
    ELSE [tier |-> WARM, reason |-> "decay-immune"]

\* "Check for HOT tier"
HotRule_Strict(salience, days_since) ==
    salience > hot_min_salience /\ days_since <= hot_to_warm_days

HotRule(salience, days_since) ==
    salience >= hot_min_salience /\ days_since <= hot_to_warm_days

\* "Check for WARM tier"
WarmRule_HotWindow(salience, days_since) ==
    salience >= warm_min_salience /\ days_since <= hot_to_warm_days

WarmRule(salience, days_since) ==
    salience >= warm_min_salience /\ days_since <= warm_to_cold_days

\* "Default to COLD"
DefaultTier_NoFloor(locked) == [tier |-> COLD, reason |-> "low activity"]

DefaultTier(locked) ==
    IF locked
    THEN [tier |-> WARM, reason |-> "locked (would be cold)"]
    ELSE [tier |-> COLD, reason |-> "low activity"]

\* StorageManager.calculate_tier, on the values it reads
TierDecision(locked, tier, decay_immune, salience, days_since, access_count) ==
    IF locked /\ tier = COLD
    THEN [tier |-> WARM, reason |-> "locked (promoted from cold)"]
    ELSE IF decay_immune
    THEN ImmuneTier(salience)
    ELSE IF HotRule(salience, days_since)
    THEN [tier |-> HOT, reason |-> "high salience, recent access"]
    ELSE IF WarmRule(salience, days_since)
    THEN [tier |-> WARM, reason |-> "moderate salience"]
    ELSE IF days_since <= promotion_window_days
            /\ access_count >= promote_to_hot_accesses
    THEN [tier |-> HOT, reason |-> "high access count"]
    ELSE IF days_since <= promotion_window_days
            /\ access_count >= promote_to_warm_accesses
    THEN [tier |-> WARM, reason |-> "moderate access count"]
    ELSE DefaultTier(locked)

\* StorageState(memory_id=memory_id)
StorageState ==
    [tier |-> HOT, tier_changed |-> NoTime, verbatim_archived |-> FALSE,
     archive_path |-> NoPath, locked |-> FALSE]

\* StorageManager.get: the manager's data after get(memory_id)
StorageGet(d, m) == IF m \in DOMAIN d THEN d ELSE Put(d, m, StorageState)

DaysSinceAccess_NeverIsToday(last_accessed, today) ==
    IF last_accessed # NoTime THEN DaysSince(last_accessed, today)
    ELSE DaysSince(today, today)

\* calculate_tier's "days since last access": 999 for a memory never accessed
DaysSinceAccess(last_accessed, today) ==
    IF last_accessed # NoTime THEN DaysSince(last_accessed, today)
    ELSE NeverAccessedDays

\* StorageManager.calculate_tier(memory_id) on manager data d (m \in DOMAIN d)
calculate_tier(d, trk, ex, m, today) ==
    LET state == d[m]
        reinforce == inspect(trk, ex, m, today)
        days_since == DaysSinceAccess(reinforce.last_accessed, today)
    IN  TierDecision(state.locked, state.tier, reinforce.decay_immune,
                     reinforce.current_salience, days_since,
                     reinforce.access_count)

\* ------------------------------------------------------ environment

\* the memories that are retrieved and boosted; the others are only ever
\* tiered, locked and archived
AccessedIds == {"m1"}
\* elapsed days between two calls
Elapsed == {8}
\* initial_salience arguments of record_access
ObservedSalience == {200}
\* amount arguments of boost
BoostAmounts == {0, 500}

\* str(archive_dir / f"{memory_id}_verbatim.yaml")
ArchivePath(m) == ".archive/" \o m \o "_verbatim.yaml"
ArchivePaths == {ArchivePath(m) : m \in MemIds}

NoDoc == [exists |-> FALSE, doc |-> <<>>]
NoFile == [exists |-> FALSE, gist_salience |-> 500, verbatim |-> <<>>]

\* the YAML files a memory may have in EXAMPLES_DIR when the program starts
ExampleFiles(m) ==
    IF m = "m1"
    THEN {[exists |-> TRUE, gist_salience |-> 600,
           verbatim |-> << <<"reconstructable", "hints">>,
                           <<"quotes", "said">> >>]}
    ELSE {NoFile,
          [exists |-> TRUE, gist_salience |-> 200, verbatim |-> <<>>],
          [exists |-> TRUE, gist_salience |-> 200,
           verbatim |-> << <<"quotes", "heard">> >>]}

NoResult == [op |-> "none", id |-> "", ret |-> FALSE]
NoVerbatim == [valid |-> FALSE, verbatim |-> <<>>]

\* the tier decision's inputs are drawn once, and not used by the lifecycle
NoTierInput ==
    [locked |-> FALSE, tier |-> HOT, decay_immune |-> FALSE, salience |-> 0,
     days_since |-> 0, access_count |-> 0]
NoTierOutput == [tier |-> "", reason |-> ""]
NoPathInput == [from_id |-> "", to_id |-> "", max_depth |-> 0]
NoPathOutput ==
    [returned |-> FALSE, raised |-> FALSE, found |-> FALSE, path |-> <<>>]
\* calculate_salience is given an entry only where it is studied alone
NoSalienceInput == [entry |-> ReinforcementData, file |-> NoFile, today |-> 0]
NoSalienceOutput == [returned |-> FALSE]
\* both collections empty, no call of recall or recall_hybrid made
NoCollections == [gist_memories |-> <<>>, markdown_chunks |-> <<>>]
NoRecallInput == [op |-> "none"]
NoRecallOutput == [returned |-> FALSE, raised |-> FALSE, memories |-> <<>>]

\* ------------------------------------------------------ lifecycle: Init

\* ReinforcementTracker.__init__ and StorageManager.__init__ with no state
\* files yet
Init ==
    /\ now = 0
    /\ tracker = EmptyMap
    /\ tracking_file = EmptyMap
    /\ data = EmptyMap
    /\ storage_file = EmptyMap
    /\ examples \in [MemIds -> UNION {ExampleFiles(m) : m \in MemIds}]
    /\ \A m \in MemIds : examples[m] \in ExampleFiles(m)
    /\ archive = [p \in ArchivePaths |-> NoDoc]
    /\ result = NoResult
    /\ archived_from = [m \in MemIds |-> NoVerbatim]
    /\ tin = NoTierInput
    /\ tout = NoTierOutput
    /\ links = EmptyMap
    /\ links_file = EmptyMap
    /\ path_in = NoPathInput
    /\ path_out = NoPathOutput
    /\ sal_in = NoSalienceInput
    /\ sal_out = NoSalienceOutput
    /\ chroma = NoCollections
    /\ recall_in = NoRecallInput
    /\ recall_out = NoRecallOutput

\* the clock advances
Tick(d) ==
    /\ now + d <= MaxDay
    /\ now' = now + d
    /\ result' = NoResult
    /\ UNCHANGED <<tracker, tracking_file, data, storage_file, examples,
                   archive, archived_from, tin, sal_in, sal_out, chroma,
                   recall_in, recall_out, path_in, path_out, tout, links,
                   links_file>>

\* record_access that takes the latest initial_salience that is not 0.5
adopt_initial_salience_Latest(stored, observed) ==
    IF observed # 500 THEN observed ELSE stored

\* record_access: "if entry.initial_salience == 0.5 and initial_salience !=
\* 0.5", the record's initial_salience after the call
adopt_initial_salience(stored, observed) ==
    IF stored = 500 /\ observed # 500 THEN observed ELSE stored

\* ReinforcementTracker.record_access: the tracker's data after the call
record_access(trk, m, s, today) ==
    LET t1 == TrackerGet(trk, m)
    IN  [t1 EXCEPT ![m] =
            [@ EXCEPT !.access_count = @ + 1,
                      !.last_accessed = today,
                      !.initial_salience = adopt_initial_salience(@, s)]]

\* record_access that counts a memory once per day
RecordAccess_OncePerDay(m, s) ==
    LET t1 == TrackerGet(tracker, m)
        entry == t1[m]
    IN  /\ entry.access_count < MaxAccess
        /\ tracker' = [t1 EXCEPT ![m] =
                [entry EXCEPT !.access_count =
                                  IF entry.last_accessed = now THEN @
                                  ELSE @ + 1,
                              !.last_accessed = now,
                              !.initial_salience =
                                  adopt_initial_salience(@, s)]]
        /\ tracking_file' = tracker'
        /\ result' = NoResult
        /\ UNCHANGED <<now, data, storage_file, examples, archive,
                       archived_from, tin, sal_in, sal_out, chroma, recall_in,
                       recall_out, path_in, path_out, tout, links, links_file>>

\* ReinforcementTracker.record_access(memory_id, initial_salience)
RecordAccess(m, s) ==
    LET t1 == TrackerGet(tracker, m)
        entry == t1[m]
    IN  /\ entry.access_count < MaxAccess
        /\ tracker' = record_access(tracker, m, s, now)
        /\ tracking_file' = tracker'
        /\ result' = NoResult
        /\ UNCHANGED <<now, data, storage_file, examples, archive,
                       archived_from, tin, sal_in, sal_out, chroma, recall_in,
                       recall_out, path_in, path_out, tout, links, links_file>>

\* boost that stores its lock argument
Boost_LockAssigns(m, amount, lock) ==
    LET t1 == TrackerGet(tracker, m)
        entry == t1[m]
    IN  /\ tracker' = [t1 EXCEPT ![m] =
                [entry EXCEPT !.explicit_boost = Min(500, @ + amount),
                              !.decay_immune = lock]]
        /\ tracking_file' = tracker'
        /\ result' = NoResult
        /\ UNCHANGED <<now, data, storage_file, examples, archive,
                       archived_from, tin, sal_in, sal_out, chroma, recall_in,
                       recall_out, path_in, path_out, tout, links, links_file>>

\* ReinforcementTracker.boost(memory_id, amount, lock)
Boost(m, amount, lock) ==
    LET t1 == TrackerGet(tracker, m)
        entry == t1[m]
    IN  /\ tracker' = [t1 EXCEPT ![m] =
                [entry EXCEPT !.explicit_boost = Min(500, @ + amount),
                              !.decay_immune = IF lock THEN TRUE ELSE @]]
        /\ tracking_file' = tracker'
        /\ result' = NoResult
        /\ UNCHANGED <<now, data, storage_file, examples, archive,
                       archived_from, tin, sal_in, sal_out, chroma, recall_in,
                       recall_out, path_in, path_out, tout, links, links_file>>

\* StorageManager.get writes the state file only when it creates the entry
SaveIfCreated(d, sf, m) == IF m \in DOMAIN d THEN sf ELSE StorageGet(d, m)

set_tier_NoStamp(d, m, tier, today) ==
    [StorageGet(d, m) EXCEPT ![m].tier = tier]

\* StorageManager.set_tier(memory_id, tier) on manager data d
set_tier(d, m, tier, today) ==
    [StorageGet(d, m) EXCEPT ![m].tier = tier, ![m].tier_changed = today]

SetTier(m, tier) ==
    /\ data' = set_tier(data, m, tier, now)
    /\ storage_file' = data'
    /\ result' = NoResult
    /\ UNCHANGED <<now, tracker, tracking_file, examples, archive,
                   archived_from, tin, sal_in, sal_out, chroma, recall_in,
                   recall_out, path_in, path_out, tout, links, links_file>>

lock_memory_Promotes(d, m, locked) ==
    [StorageGet(d, m) EXCEPT ![m].locked = locked,
                             ![m].tier = IF locked /\ @ = COLD THEN WARM ELSE @]

\* StorageManager.lock(memory_id, locked) on manager data d
lock_memory(d, m, locked) == [StorageGet(d, m) EXCEPT ![m].locked = locked]

Lock(m, locked) ==
    /\ data' = lock_memory(data, m, locked)
    /\ storage_file' = data'
    /\ result' = NoResult
    /\ UNCHANGED <<now, tracker, tracking_file, examples, archive,
                   archived_from, tin, sal_in, sal_out, chroma, recall_in,
                   recall_out, path_in, path_out, tout, links, links_file>>

\* StorageManager.update_tier(memory_id): the manager's data, its state file,
\* the tracker's data and the returned dict
update_tier(d, sf, trk, ex, m, today) ==
    LET d1 == StorageGet(d, m)
        sf1 == SaveIfCreated(d, sf, m)
        old_tier == d1[m].tier
        calc == calculate_tier(d1, trk, ex, m, today)
        trk1 == TrackerGet(trk, m)
    IN  IF calc.tier # old_tier
        THEN LET d2 == set_tier(d1, m, calc.tier, today)
             IN  [data |-> d2, storage_file |-> d2, tracker |-> trk1,
                  ret |-> [memory_id |-> m, old_tier |-> old_tier,
                           new_tier |-> calc.tier, reason |-> calc.reason,
                           changed |-> TRUE]]
        ELSE [data |-> d1, storage_file |-> sf1, tracker |-> trk1,
              ret |-> [memory_id |-> m, tier |-> old_tier,
                       reason |-> calc.reason, changed |-> FALSE]]

UpdateTier(m) ==
    \E r \in {update_tier(data, storage_file, tracker, examples, m, now)} :
        /\ data' = r.data
        /\ storage_file' = r.storage_file
        /\ tracker' = r.tracker
        /\ result' = [op |-> "update_tier", id |-> m, ret |-> r.ret]
        /\ UNCHANGED <<now, tracking_file, examples, archive, archived_from,
                       tin, sal_in, sal_out, chroma, recall_in, recall_out,
                       path_in, path_out, tout, links, links_file>>

\* StorageManager.update_all_tiers over the ids still to visit: update_tier
\* on each, the changed results collected
RECURSIVE update_all_tiers(_, _, _, _, _, _, _)
update_all_tiers(ids, d, sf, trk, ex, today, changes) ==
    IF ids = {}
    THEN [data |-> d, storage_file |-> sf, tracker |-> trk, ret |-> changes]
    ELSE LET m == CHOOSE x \in ids : TRUE
             r == update_tier(d, sf, trk, ex, m, today)
         IN  update_all_tiers(ids \ {m}, r.data, r.storage_file, r.tracker,
                              ex, today,
                              IF r.ret.changed THEN changes \cup {r.ret}
                              ELSE changes)

\* the ids update_all_tiers visits: tracker.data.keys()
TrackedIds(d, trk) == DOMAIN trk

UpdateAllTiers ==
    \E r \in {update_all_tiers(TrackedIds(data, tracker), data, storage_file,
                              tracker, examples, now, {})} :
        /\ data' = r.data
        /\ storage_file' = r.storage_file
        /\ tracker' = r.tracker
        /\ result' = [op |-> "update_all_tiers", id |-> "", ret |-> r.ret]
        /\ UNCHANGED <<now, tracking_file, examples, archive, archived_from,
                       tin, sal_in, sal_out, chroma, recall_in, recall_out,
                       path_in, path_out, tout, links, links_file>>

\* ------------------------------------------------- archive and restore

\* archive_verbatim's tier check: only a COLD memory is archived
ArchiveAllowed_NotHot(tier) == tier # HOT

ArchiveAllowed(tier) == tier = COLD

Placeholder_NoHints(verbatim, path) ==
    << <<"_archived", "True">>,
       <<"_archive_path", path>>,
       <<"reconstructable", "{}">> >>

\* the placeholder archive_verbatim leaves in the memory file
Placeholder(verbatim, path) ==
    << <<"_archived", "True">>,
       <<"_archive_path", path>>,
       <<"reconstructable", DictGet(verbatim, "reconstructable", "{}")>> >>

\* StorageManager.archive_verbatim(memory_id), stopped after `steps` of its
\* three writes (the archive file, the memory file, the state file): what is
\* on disk and in the manager, and what a completed call returns
archive_verbatim(d, sf, ex, ar, m, steps) ==
    LET d1 == StorageGet(d, m)
        sf1 == SaveIfCreated(d, sf, m)
        verbatim == ex[m].verbatim
        path == ArchivePath(m)
    IN  IF ~ArchiveAllowed(d1[m].tier) \/ ~ex[m].exists \/ verbatim = <<>>
        THEN [data |-> d1, storage_file |-> sf1, examples |-> ex,
              archive |-> ar, ret |-> FALSE]
        ELSE LET ar1 == [ar EXCEPT ![path] =
                            [exists |-> TRUE, doc |-> YamlDumpSorted(verbatim)]]
                 ex1 == [ex EXCEPT ![m].verbatim = Placeholder(verbatim, path)]
                 d2 == [d1 EXCEPT ![m].verbatim_archived = TRUE,
                                  ![m].archive_path = path]
             IN  [data |-> IF steps >= 2 THEN d2 ELSE d1,
                  storage_file |-> IF steps >= 3 THEN d2 ELSE sf1,
                  examples |-> IF steps >= 2 THEN ex1 ELSE ex,
                  archive |-> ar1,
                  ret |-> TRUE]

ArchiveVerbatim(m) ==
    \E r \in {archive_verbatim(data, storage_file, examples, archive, m, 3)} :
        /\ data' = r.data
        /\ storage_file' = r.storage_file
        /\ examples' = r.examples
        /\ archive' = r.archive
        /\ result' = [op |-> "archive_verbatim", id |-> m, ret |-> r.ret]
        /\ archived_from' =
               IF r.ret
               THEN [archived_from EXCEPT ![m] =
                        [valid |-> TRUE, verbatim |-> examples[m].verbatim]]
               ELSE archived_from
        /\ UNCHANGED <<now, tracker, tracking_file, tin, sal_in, sal_out,
                       chroma, recall_in, recall_out, path_in, path_out, tout,
                       links, links_file>>

ArchiveReadable_Unchecked(ar, path) == TRUE

\* restore_verbatim's check of the archive file: archive_path.exists()
ArchiveReadable(ar, path) == ar[path].exists

\* StorageManager.restore_verbatim(memory_id), stopped after `steps` of its
\* three writes (the memory file, the state file, the archive file's unlink)
restore_verbatim(d, sf, ex, ar, m, steps) ==
    LET d1 == StorageGet(d, m)
        sf1 == SaveIfCreated(d, sf, m)
        path == d1[m].archive_path
    IN  IF ~d1[m].verbatim_archived \/ path = NoPath
        THEN [data |-> d1, storage_file |-> sf1, examples |-> ex,
              archive |-> ar, ret |-> FALSE]
        ELSE IF ~ArchiveReadable(ar, path) \/ ~ex[m].exists
        THEN [data |-> d1, storage_file |-> sf1, examples |-> ex,
              archive |-> ar, ret |-> FALSE]
        ELSE LET archived == YamlSafeLoad(ar[path].doc)
                 ex1 == [ex EXCEPT ![m].verbatim = archived]
                 d2 == [d1 EXCEPT ![m].verbatim_archived = FALSE,
                                  ![m].archive_path = NoPath]
                 ar1 == [ar EXCEPT ![path] = NoDoc]
             IN  [data |-> IF steps >= 2 THEN d2 ELSE d1,
                  storage_file |-> IF steps >= 2 THEN d2 ELSE sf1,
                  examples |-> ex1,
                  archive |-> IF steps >= 3 THEN ar1 ELSE ar,
                  ret |-> TRUE]

RestoreVerbatim(m) ==
    \E r \in {restore_verbatim(data, storage_file, examples, archive, m, 3)} :
        /\ data' = r.data
        /\ storage_file' = r.storage_file
        /\ examples' = r.examples
        /\ archive' = r.archive
        /\ result' = [op |-> "restore_verbatim", id |-> m, ret |-> r.ret]
        /\ archived_from' = IF r.ret
                            THEN [archived_from EXCEPT ![m] = NoVerbatim]
                            ELSE archived_from
        /\ UNCHANGED <<now, tracker, tracking_file, tin, sal_in, sal_out,
                       chroma, recall_in, recall_out, path_in, path_out, tout,
                       links, links_file>>

\* ------------------------------------------------- process stop and start

\* The process ends (each CLI command is one process) and the next one
\* starts: ReinforcementTracker._load and StorageManager._load
Restart ==
    /\ data' = storage_file
    /\ tracker' = tracking_file
    /\ result' = NoResult
    /\ UNCHANGED <<now, tracking_file, storage_file, examples, archive,
                   archived_from, tin, sal_in, sal_out, chroma, recall_in,
                   recall_out, path_in, path_out, tout, links, links_file>>

\* archive_verbatim(memory_id) on a call that would succeed, the process
\* stopping after `steps` of its writes; the next process loads what is on
\* disk
ArchiveVerbatimStopped(m, steps) ==
    \E r \in {archive_verbatim(data, storage_file, examples, archive, m, steps)} :
        /\ r.ret
        /\ storage_file' = r.storage_file
        /\ data' = r.storage_file
        /\ tracker' = tracking_file
        /\ examples' = r.examples
        /\ archive' = r.archive
        /\ result' = NoResult
        /\ archived_from' = [archived_from EXCEPT ![m] = NoVerbatim]
        /\ UNCHANGED <<now, tracking_file, tin, sal_in, sal_out, chroma,
                       recall_in, recall_out, path_in, path_out, tout, links,
                       links_file>>

\* restore_verbatim(memory_id) on a call that would succeed, the process
\* stopping after `steps` of its writes
RestoreVerbatimStopped(m, steps) ==
    \E r \in {restore_verbatim(data, storage_file, examples, archive, m, steps)} :
        /\ r.ret
        /\ storage_file' = r.storage_file
        /\ data' = r.storage_file
        /\ tracker' = tracking_file
        /\ examples' = r.examples
        /\ archive' = r.archive
        /\ result' = NoResult
        /\ archived_from' = [archived_from EXCEPT ![m] = NoVerbatim]
        /\ UNCHANGED <<now, tracking_file, tin, sal_in, sal_out, chroma,
                       recall_in, recall_out, path_in, path_out, tout, links,
                       links_file>>

\* ------------------------------------------------- lifecycle: Next

\* the tier lifecycle: accesses, boosts, the clock and re-tiering
Next ==
    \/ \E d \in Elapsed : Tick(d)
    \/ \E m \in AccessedIds, s \in ObservedSalience : RecordAccess(m, s)
    \/ \E m \in AccessedIds, a \in BoostAmounts, l \in BOOLEAN : Boost(m, a, l)
    \/ \E m \in MemIds, t \in StorageTier : SetTier(m, t)
    \/ \E m \in MemIds, l \in BOOLEAN : Lock(m, l)
    \/ \E m \in MemIds : UpdateTier(m)
    \/ UpdateAllTiers
    \/ Restart

Spec == Init /\ [][Next]_vars

\* archiving: re-tiering, locking, archive and restore, with process stops
ArchiveNext ==
    \/ \E m \in MemIds, l \in BOOLEAN : Lock(m, l)
    \/ \E m \in MemIds : UpdateTier(m)
    \/ \E m \in MemIds : ArchiveVerbatim(m)
    \/ \E m \in MemIds : RestoreVerbatim(m)
    \/ \E m \in MemIds, k \in 1..2 : ArchiveVerbatimStopped(m, k)
    \/ \E m \in MemIds, k \in 1..2 : RestoreVerbatimStopped(m, k)

ArchiveSpec == Init /\ [][ArchiveNext]_vars

\* ------------------------------------------------- the tier decision alone

\* salience values around the two thresholds
SalienceInputs == {0, 100, 200, 299, 300, 301, 400, 499, 500, 501, 600, 1000}

TierInputs ==
    [locked : BOOLEAN, tier : StorageTier, decay_immune : BOOLEAN,
     salience : SalienceInputs,
     days_since : (0..MaxDaysIn) \cup {NeverAccessedDays},
     access_count : 0..MaxAccessIn]

TierInit ==
    /\ tin \in TierInputs
    /\ tout = NoTierOutput
    /\ now = 0
    /\ tracker = EmptyMap
    /\ tracking_file = EmptyMap
    /\ data = EmptyMap
    /\ storage_file = EmptyMap
    /\ examples = [m \in MemIds |-> NoFile]
    /\ archive = [p \in ArchivePaths |-> NoDoc]
    /\ result = NoResult
    /\ archived_from = [m \in MemIds |-> NoVerbatim]
    /\ links = EmptyMap
    /\ links_file = EmptyMap
    /\ path_in = NoPathInput
    /\ path_out = NoPathOutput
    /\ sal_in = NoSalienceInput
    /\ sal_out = NoSalienceOutput
    /\ chroma = NoCollections
    /\ recall_in = NoRecallInput
    /\ recall_out = NoRecallOutput

\* calculate_tier on the drawn inputs
TierCalc ==
    /\ tout = NoTierOutput
    /\ tout' = TierDecision(tin.locked, tin.tier, tin.decay_immune,
                            tin.salience, tin.days_since, tin.access_count)
    /\ UNCHANGED <<now, tracker, tracking_file, data, storage_file, examples,
                   archive, result, archived_from, tin, sal_in, sal_out,
                   chroma, recall_in, recall_out, path_in, path_out, links,
                   links_file>>

TierNext == TierCalc

TierSpec == TierInit /\ [][TierNext]_vars

\* ===================================================== tier claims

NotCold == {HOT, WARM}

\* the tier decision has been applied to the drawn inputs
Decided == tout # NoTierOutput

\* tracker.data holds m with decay_immune set
Immune(m) == m \in DOMAIN tracker /\ tracker[m].decay_immune

\* the manager holds m with locked set
Locked(m) == m \in DOMAIN data /\ data[m].locked

\* update_tier is applied to m by this step: update_tier(m) itself, or
\* update_all_tiers when it visits m
Retiers(m) ==
    \/ result'.op = "update_tier" /\ UpdateTier(m)
    \/ result'.op = "update_all_tiers" /\ UpdateAllTiers
          /\ m \in DOMAIN tracker

\* C4: a decay-immune memory is never tiered COLD: calculate_tier recommends
\* HOT or WARM for it in every state, and update_tier and update_all_tiers
\* leave it HOT or WARM, whatever its salience, accesses, lock and tier.
C4_ImmuneNeverCold ==
    /\ [](\A m \in MemIds : Immune(m) =>
            calculate_tier(StorageGet(data, m), tracker, examples, m, now).tier
                \in NotCold)
    /\ [][\A m \in MemIds : (Immune(m) /\ Retiers(m)) =>
            data'[m].tier \in NotCold]_vars

\* a decay-immune memory of low salience that was COLD has been re-tiered WARM
C4_Witness ==
    /\ result.op = "update_tier"
    /\ Immune(result.id)
    /\ result.ret.changed
    /\ result.ret.old_tier = COLD
    /\ result.ret.reason = "decay-immune"
    /\ data[result.id].tier = WARM

C6_Claimed ==
    (Decided /\ ~tin.locked /\ ~tin.decay_immune /\ tin.salience = 600
        /\ tin.days_since = 10)
    => tout.tier = (IF tin.access_count >= 2 THEN WARM ELSE COLD)

\* C6 amended: unlocked, not immune, salience 0.6, 10 days since access is
\* WARM whatever the access count (salience >= 0.3 within 30 days).
C6_WarmAtTenDays ==
    (Decided /\ ~tin.locked /\ ~tin.decay_immune /\ tin.salience = 600
        /\ tin.days_since = 10)
    => tout.tier = WARM

\* the example with no access burst has been decided
C6_Witness ==
    /\ Decided /\ ~tin.locked /\ ~tin.decay_immune
    /\ tin.salience = 600 /\ tin.days_since = 10 /\ tin.access_count = 1
    /\ tout.tier = WARM

\* the seven rules of the tier decision, in order
TierRules(in) ==
    << [when |-> in.locked /\ in.tier = COLD, then |-> WARM],
       [when |-> in.decay_immune,
        then |-> IF in.salience >= 500 THEN HOT ELSE WARM],
       [when |-> in.salience >= 500 /\ in.days_since <= 7, then |-> HOT],
       [when |-> in.salience >= 300 /\ in.days_since <= 30, then |-> WARM],
       [when |-> in.days_since <= 14 /\ in.access_count >= 5, then |-> HOT],
       [when |-> in.days_since <= 14 /\ in.access_count >= 2, then |-> WARM],
       [when |-> TRUE, then |-> IF in.locked THEN WARM ELSE COLD] >>

FirstMatch(in) ==
    LET rules == TierRules(in)
        first == CHOOSE i \in 1..Len(rules) :
                    rules[i].when /\ \A j \in 1..(i - 1) : ~rules[j].when
    IN  rules[first].then

\* C7: calculate_tier is the first matching rule of the seven, for every
\* combination of inputs; salience 0.6, 3 days, unlocked, not immune is HOT.
C7_SevenRules ==
    Decided =>
        /\ tout.tier = FirstMatch(tin)
        /\ (~tin.locked /\ ~tin.decay_immune /\ tin.salience = 600
                /\ tin.days_since = 3) => tout.tier = HOT

\* the HOT example has been decided
C7_Witness ==
    /\ Decided /\ ~tin.locked /\ ~tin.decay_immune
    /\ tin.salience = 600 /\ tin.days_since = 3
    /\ tout.tier = HOT

\* C8: update_tier reports changed exactly when the computed tier differs
\* from the stored one; then the stored tier is the computed one, tier_changed
\* is now and the result carries old tier, new tier and reason; otherwise the
\* StorageState is as before.
C8_UpdateTierReport ==
    [][\A m \in MemIds : (result'.op = "update_tier" /\ UpdateTier(m)) =>
        LET before == StorageGet(data, m)[m]
            calc == calculate_tier(StorageGet(data, m), tracker, examples,
                                   m, now)
            ret == result'.ret
        IN  /\ ret.changed = (calc.tier # before.tier)
            /\ ret.changed =>
                 /\ data'[m] = [before EXCEPT !.tier = calc.tier,
                                              !.tier_changed = now]
                 /\ ret.old_tier = before.tier
                 /\ ret.new_tier = calc.tier
                 /\ ret.reason = calc.reason
            /\ ~ret.changed => data'[m] = before]_vars

\* a tier change has been reported and stamped, after the clock moved
C8_Witness ==
    /\ result.op = "update_tier"
    /\ result.ret.changed
    /\ now > 0
    /\ data[result.id].tier = result.ret.new_tier
    /\ data[result.id].tier_changed = now

\* the memories the program knows: a StorageState or a ReinforcementData
KnownIds == DOMAIN data \cup DOMAIN tracker

\* C9 as claimed: update_all_tiers applies update_tier to every known memory
\* and returns exactly the change records of those whose tier changed.
C9_Claimed ==
    [][(result'.op = "update_all_tiers" /\ UpdateAllTiers) =>
        LET each == [m \in KnownIds |->
                        update_tier(data, storage_file, tracker, examples,
                                    m, now)]
        IN  /\ \A m \in KnownIds : data'[m] = each[m].data[m]
            /\ result'.ret = {each[m].ret : m \in {x \in KnownIds :
                                                    each[x].ret.changed}}]_vars


\* ===================================================== archive claims

\* the live record of m holds a placeholder instead of a verbatim
IsPlaceholder(verbatim) == "_archived" \in DictKeys(verbatim)

\* this step is a completed archive_verbatim(m) / restore_verbatim(m)
Archives(m) == result'.op = "archive_verbatim" /\ ArchiveVerbatim(m)
Restores(m) == result'.op = "restore_verbatim" /\ RestoreVerbatim(m)

\* C1: archive_verbatim on a COLD memory with a non-empty live verbatim V
\* returns true, leaves a placeholder that keeps of V only 'reconstructable',
\* and sets verbatim_archived with an archive path; a later restore_verbatim,
\* whatever update_tier and lock calls came between, returns true, makes the
\* live verbatim equal to V, clears flag and path and removes the archive.
C1_ArchiveRestoreRoundTrip ==
    /\ [][\A m \in MemIds :
            (Archives(m) /\ StorageGet(data, m)[m].tier = COLD
                /\ examples[m].exists /\ examples[m].verbatim # <<>>) =>
            LET V == examples[m].verbatim
                live == examples'[m].verbatim
            IN  /\ result'.ret = TRUE
                /\ DictKeys(live) =
                     {"_archived", "_archive_path", "reconstructable"}
                /\ DictGet(live, "reconstructable", "") =
                     DictGet(V, "reconstructable", "{}")
                /\ DictGet(live, "_archived", "") = "True"
                /\ data'[m].verbatim_archived
                /\ data'[m].archive_path \in ArchivePaths
                /\ DictGet(live, "_archive_path", "") = data'[m].archive_path
                /\ archive'[data'[m].archive_path].exists]_vars
    /\ [][\A m \in MemIds :
            (Restores(m) /\ archived_from[m].valid) =>
                /\ result'.ret = TRUE
                /\ DictEq(examples'[m].verbatim, archived_from[m].verbatim)
                /\ ~data'[m].verbatim_archived
                /\ data'[m].archive_path = NoPath
                /\ ~archive'[data[m].archive_path].exists]_vars

\* m1's verbatim has been archived while COLD and restored after the memory
\* was locked and re-tiered WARM
C1_Witness ==
    /\ result = [op |-> "restore_verbatim", id |-> "m1", ret |-> TRUE]
    /\ Locked("m1") /\ data["m1"].tier = WARM
    /\ DictGet(examples["m1"].verbatim, "quotes", "") = "said"
    /\ DictGet(examples["m1"].verbatim, "reconstructable", "") = "hints"
    /\ ~archive[ArchivePath("m1")].exists

\* C2: archive_verbatim on a HOT or WARM memory returns false and leaves the
\* StorageState, the live verbatim and the archive store unchanged.
C2_ArchiveRefusedUnlessCold ==
    [][\A m \in MemIds :
        (Archives(m) /\ StorageGet(data, m)[m].tier \in {HOT, WARM}) =>
            /\ result'.ret = FALSE
            /\ data' = StorageGet(data, m)
            /\ examples' = examples
            /\ archive' = archive]_vars

\* archiving a WARM memory that has a verbatim has been refused
C2_Witness ==
    /\ result.op = "archive_verbatim" /\ result.ret = FALSE
    /\ data[result.id].tier = WARM
    /\ examples[result.id].verbatim # <<>>
    /\ ~IsPlaceholder(examples[result.id].verbatim)
    /\ ~archive[ArchivePath(result.id)].exists

\* C3 as claimed: whatever step archive or restore stops at, the persisted
\* verbatim_archived is true exactly when the live verbatim is the placeholder.
C3_Claimed ==
    \A m \in MemIds : examples[m].exists =>
        ((m \in DOMAIN storage_file /\ storage_file[m].verbatim_archived)
            <=> IsPlaceholder(examples[m].verbatim))


\* ===================================================== link graph

\* LinkType
ELABORATES == "elaborates"
CONTRADICTS == "contradicts"
SUPERSEDES == "supersedes"
RELATES_TO == "relates_to"
CAUSED_BY == "caused_by"
LEADS_TO == "leads_to"
LinkType ==
    {ELABORATES, CONTRADICTS, SUPERSEDES, RELATES_TO, CAUSED_BY, LEADS_TO}

\* LinkType.inverse
inverse_Same(link_type) == link_type

inverse(link_type) ==
    CASE link_type = ELABORATES -> RELATES_TO
      [] link_type = CONTRADICTS -> CONTRADICTS
      [] link_type = SUPERSEDES -> RELATES_TO
      [] link_type = RELATES_TO -> RELATES_TO
      [] link_type = CAUSED_BY -> LEADS_TO
      [] link_type = LEADS_TO -> CAUSED_BY
      [] OTHER -> RELATES_TO

\* link_type=None of remove_link
NoType == "None"

\* MemoryLinks(memory_id=memory_id)
MemoryLinks == [outbound |-> <<>>, inbound |-> <<>>]

\* LinkManager.get: the manager's data after get(memory_id)
LinksGet(lk, m) == IF m \in DOMAIN lk THEN lk ELSE Put(lk, m, MemoryLinks)

\* asdict(Link(source_id, target_id, link_type, note)), an outbound entry
OutboundEntry(source_id, target_id, link_type, note, today) ==
    [source_id |-> source_id, target_id |-> target_id,
     link_type |-> link_type, note |-> note, created |-> today]

\* an inbound entry
InboundEntry(source_id, link_type, note, today) ==
    [source_id |-> source_id, link_type |-> link_type, note |-> note,
     created |-> today]

\* "Check for duplicate": an outbound entry to target_id of link_type exists
HasOutbound_AnyType(entries, target_id, link_type) ==
    \E i \in 1..Len(entries) : entries[i].target_id = target_id

HasOutbound(entries, target_id, link_type) ==
    \E i \in 1..Len(entries) :
        entries[i].target_id = target_id /\ entries[i].link_type = link_type

\* an inbound entry from source_id of link_type exists
HasInbound(entries, source_id, link_type) ==
    \E i \in 1..Len(entries) :
        entries[i].source_id = source_id /\ entries[i].link_type = link_type

\* lk with an entry appended to m's outbound / inbound list unless present
AddOutbound(lk, m, entry) ==
    IF HasOutbound(lk[m].outbound, entry.target_id, entry.link_type)
    THEN lk
    ELSE [lk EXCEPT ![m].outbound = Append(@, entry)]

\* an inbound entry skipped when the source has one of any type
AddInbound_AnyType(lk, m, entry) ==
    IF \E i \in 1..Len(lk[m].inbound) :
            lk[m].inbound[i].source_id = entry.source_id
    THEN lk
    ELSE [lk EXCEPT ![m].inbound = Append(@, entry)]

AddInbound(lk, m, entry) ==
    IF HasInbound(lk[m].inbound, entry.source_id, entry.link_type)
    THEN lk
    ELSE [lk EXCEPT ![m].inbound = Append(@, entry)]

tracker_add_link_NoCheck(trk, tf, from_id, to_id) ==
    LET t1 == TrackerGet(trk, to_id)
        t2 == [t1 EXCEPT ![to_id].linked_by = Append(@, from_id)]
    IN  [tracker |-> t2, tracking_file |-> t2]

\* ReinforcementTracker.add_link(from_id, to_id): the tracker's data and file
tracker_add_link(trk, tf, from_id, to_id) ==
    LET t1 == TrackerGet(trk, to_id)
    IN  IF \E i \in 1..Len(t1[to_id].linked_by) :
                t1[to_id].linked_by[i] = from_id
        THEN [tracker |-> t1, tracking_file |-> tf]
        ELSE LET t2 == [t1 EXCEPT ![to_id].linked_by = Append(@, from_id)]
             IN  [tracker |-> t2, tracking_file |-> t2]

\* the note of the inverse link
InverseNote(note) == IF note # "" THEN "[inverse] " \o note
                     ELSE "[inverse link]"

\* LinkManager.add_link(source_id, target_id, link_type, note, bidirectional)
\* for a valid link_type: the link data, the tracker and the returned dict
add_link(lk, trk, tf, source_id, target_id, link_type, note, bidirectional, today) ==
    LET l1 == AddOutbound(LinksGet(lk, source_id), source_id,
                 OutboundEntry(source_id, target_id, link_type, note, today))
        l2 == AddInbound(LinksGet(l1, target_id), target_id,
                 InboundEntry(source_id, link_type, note, today))
        r1 == tracker_add_link(trk, tf, source_id, target_id)
        inverse_type == inverse(link_type)
        l3 == AddOutbound(l2, target_id,
                 OutboundEntry(target_id, source_id, inverse_type,
                               InverseNote(note), today))
        l4 == AddInbound(l3, source_id,
                 InboundEntry(target_id, inverse_type, InverseNote(note),
                              today))
        r2 == tracker_add_link(r1.tracker, r1.tracking_file, target_id,
                               source_id)
        ret == [source |-> source_id, target |-> target_id,
                type |-> link_type, bidirectional |-> bidirectional]
    IN  IF bidirectional
        THEN [links |-> l4, tracker |-> r2.tracker,
              tracking_file |-> r2.tracking_file, ret |-> ret]
        ELSE [links |-> l2, tracker |-> r1.tracker,
              tracking_file |-> r1.tracking_file, ret |-> ret]

\* the number of outbound entries of the whole graph
RECURSIVE TotalOutbound(_, _)
TotalOutbound(lk, ids) ==
    IF ids = {} THEN 0
    ELSE LET m == CHOOSE x \in ids : TRUE
         IN  Len(lk[m].outbound) + TotalOutbound(lk, ids \ {m})

\* "Validate link type": LinkType(link_type) finds a member for the value
LinkTypeValid_Any(link_type) == TRUE

LinkTypeValid(link_type) == link_type \in LinkType

\* a call of add_link: LinkType(link_type) raises ValueError for a value that
\* is not a member's, before anything is read or written
AddLink(source_id, target_id, link_type, note, bidirectional) ==
    IF ~LinkTypeValid(link_type)
    THEN /\ result' = [op |-> "add_link raised", id |-> source_id,
                       ret |-> "ValueError"]
         /\ UNCHANGED <<now, tracker, tracking_file, data, storage_file,
                        examples, archive, archived_from, tin, sal_in,
                        sal_out, chroma, recall_in, recall_out, tout, links,
                        links_file, path_in, path_out>>
    ELSE \E r \in {add_link(links, tracker, tracking_file, source_id,
                            target_id, link_type, note, bidirectional, now)} :
            /\ TotalOutbound(r.links, DOMAIN r.links) <= MaxLinks
            /\ links' = r.links
            /\ links_file' = r.links
            /\ tracker' = r.tracker
            /\ tracking_file' = r.tracking_file
            /\ result' = [op |-> "add_link", id |-> source_id, ret |-> r.ret]
            /\ UNCHANGED <<now, data, storage_file, examples, archive,
                           archived_from, tin, sal_in, sal_out, chroma,
                           recall_in, recall_out, path_in, path_out, tout>>

remove_link_ForwardOnly(lk, source_id, target_id, link_type) ==
    LET l0 == LinksGet(LinksGet(lk, source_id), target_id)
        l1 == [l0 EXCEPT ![source_id].outbound =
                 SelectSeq(@, LAMBDA l :
                    ~(l.target_id = target_id
                      /\ (link_type = NoType \/ l.link_type = link_type)))]
        l2 == [l1 EXCEPT ![target_id].inbound =
                 SelectSeq(@, LAMBDA l :
                    ~(l.source_id = source_id
                      /\ (link_type = NoType \/ l.link_type = link_type)))]
    IN  [links |-> l2,
         removed |-> Len(l1[source_id].outbound) < Len(l0[source_id].outbound)]

\* LinkManager.remove_link(source_id, target_id, link_type): the link data
\* and the returned flag
remove_link(lk, source_id, target_id, link_type) ==
    LET l0 == LinksGet(LinksGet(lk, source_id), target_id)
        l1 == [l0 EXCEPT ![source_id].outbound =
                 SelectSeq(@, LAMBDA l :
                    ~(l.target_id = target_id
                      /\ (link_type = NoType \/ l.link_type = link_type)))]
        removed == Len(l1[source_id].outbound) < Len(l0[source_id].outbound)
        l2 == [l1 EXCEPT ![target_id].inbound =
                 SelectSeq(@, LAMBDA l :
                    ~(l.source_id = source_id
                      /\ (link_type = NoType \/ l.link_type = link_type)))]
        l3 == [l2 EXCEPT ![target_id].outbound =
                 SelectSeq(@, LAMBDA l : ~(l.target_id = source_id))]
        l4 == [l3 EXCEPT ![source_id].inbound =
                 SelectSeq(@, LAMBDA l : ~(l.source_id = target_id))]
    IN  [links |-> l4, removed |-> removed]

\* a remove_link that takes the source out of the target's linked_by
RemoveLink_Unlinks(source_id, target_id, link_type) ==
    \E r \in {remove_link(links, source_id, target_id, link_type)} :
        /\ links' = r.links
        /\ links_file' = IF r.removed THEN r.links ELSE links_file
        /\ result' = [op |-> "remove_link", id |-> source_id,
                      ret |-> r.removed]
        /\ tracker' = [m \in DOMAIN tracker |->
                         IF m = target_id /\ r.removed
                         THEN [tracker[m] EXCEPT !.linked_by =
                                 SelectSeq(@, LAMBDA x : x # source_id)]
                         ELSE tracker[m]]
        /\ tracking_file' = tracker'
        /\ UNCHANGED <<now, data, storage_file,
                       examples, archive, archived_from, tin, sal_in, sal_out,
                       chroma, recall_in, recall_out, path_in, path_out, tout>>

RemoveLink(source_id, target_id, link_type) ==
    \E r \in {remove_link(links, source_id, target_id, link_type)} :
        /\ links' = r.links
        /\ links_file' = IF r.removed THEN r.links ELSE links_file
        /\ result' = [op |-> "remove_link", id |-> source_id,
                      ret |-> r.removed]
        /\ UNCHANGED <<now, tracker, tracking_file, data, storage_file,
                       examples, archive, archived_from, tin, sal_in, sal_out,
                       chroma, recall_in, recall_out, path_in, path_out, tout>>

\* note arguments of add_link
Notes == {"", "see"}
\* link_type arguments of add_link and remove_link: one whose inverse is
\* another type, one that is its own inverse
LinkTypeInputs == {ELABORATES, CONTRADICTS}

\* target_id arguments of add_link: with both memories as source_id they
\* give a link of a memory to itself and a link between two memories
LinkTargets == {"m1"}

\* a link_type argument that is no member's value
InvalidLinkTypes == {"follows"}

LinkInit == Init /\ examples["m2"] = NoFile

LinkNext ==
    \/ \E s \in MemIds, t \in LinkTargets,
          ty \in LinkTypeInputs \cup InvalidLinkTypes, n \in Notes,
          b \in BOOLEAN : AddLink(s, t, ty, n, b)
    \/ \E s \in MemIds, t \in MemIds, ty \in LinkTypeInputs \cup {NoType} :
          RemoveLink(s, t, ty)

LinkSpec == LinkInit /\ [][LinkNext]_vars

\* ===================================================== find_path

\* memory ids of the graphs find_path is applied to
PathIds == MemIds \cup {"m3", "m4"}

\* max_depth arguments of find_path
MaxDepthIn == 3
MaxDepths == (0 - 1) .. MaxDepthIn

\* the orders in which a set of neighbor ids can be iterated
Orders ==
    {o \in [1..Cardinality(PathIds) -> PathIds] :
        \A i, j \in 1..Cardinality(PathIds) : o[i] = o[j] => i = j}

\* neighbors of current in find_path: targets of its outbound entries and
\* sources of its inbound entries
Neighbors_OutboundOnly(lk, current) ==
    {lk[current].outbound[i].target_id : i \in 1..Len(lk[current].outbound)}

Neighbors(lk, current) ==
    {lk[current].outbound[i].target_id : i \in 1..Len(lk[current].outbound)}
        \cup
    {lk[current].inbound[i].source_id : i \in 1..Len(lk[current].inbound)}

\* the while loop of find_path: the link data and the returned path
RECURSIVE find_path_loop(_, _, _, _, _, _)
find_path_loop(lk, queue, visited, to_id, max_depth, order) ==
    IF queue = <<>>
    THEN [links |-> lk, found |-> FALSE, path |-> <<>>]
    ELSE LET path == Head(queue)
             current == path[Len(path)]
         IN  IF Len(path) > max_depth \/ current \in visited
             THEN find_path_loop(lk, Tail(queue), visited, to_id, max_depth,
                                 order)
             ELSE LET lk1 == LinksGet(lk, current)
                      visited1 == visited \cup {current}
                      neighbors == Neighbors(lk1, current)
                      todo == SelectSeq(order, LAMBDA n :
                                  n \in neighbors /\ n \notin visited1)
                  IN  IF to_id \in neighbors
                      THEN [links |-> lk1, found |-> TRUE,
                            path |-> Append(path, to_id)]
                      ELSE find_path_loop(lk1,
                              Tail(queue) \o
                                [i \in 1..Len(todo) |-> Append(path, todo[i])],
                              visited1, to_id, max_depth, order)

\* LinkManager.find_path(from_id, to_id, max_depth), the neighbor sets being
\* iterated in the given order: the link data and the returned path (found is
\* FALSE for None)
find_path(lk, from_id, to_id, max_depth, order) ==
    IF from_id = to_id
    THEN [links |-> lk, found |-> TRUE, path |-> <<from_id>>]
    ELSE find_path_loop(lk, <<<<from_id>>>>, {}, to_id, max_depth, order)

FindPath(from_id, to_id, max_depth, order) ==
    /\ path_out = NoPathOutput
    /\ \E r \in {find_path(links, from_id, to_id, max_depth, order)} :
        /\ path_in' = [from_id |-> from_id, to_id |-> to_id,
                       max_depth |-> max_depth]
        /\ path_out' = [returned |-> TRUE, raised |-> FALSE,
                        found |-> r.found, path |-> r.path]
        /\ links' = r.links
        /\ UNCHANGED <<now, tracker, tracking_file, data, storage_file,
                       examples, archive, result, archived_from, tin, sal_in,
                       sal_out, chroma, recall_in, recall_out, tout,
                       links_file>>

\* pairs of memories that may be linked, and the ways they are
PathPairs ==
    {<<"m1", "m2">>, <<"m1", "m3">>, <<"m1", "m4">>, <<"m2", "m3">>,
     <<"m2", "m4">>, <<"m3", "m4">>}
PathLinkWays == {"none", "forward", "backward"}

\* the link data after an add_link call per linked pair
RECURSIVE LinkedGraph(_, _, _)
LinkedGraph(lk, pairs, ways) ==
    IF pairs = {} THEN lk
    ELSE LET p == CHOOSE x \in pairs : TRUE
             l1 == IF ways[p] = "forward"
                   THEN add_link(lk, EmptyMap, EmptyMap, p[1], p[2],
                                 RELATES_TO, "", FALSE, 0).links
                   ELSE IF ways[p] = "backward"
                   THEN add_link(lk, EmptyMap, EmptyMap, p[2], p[1],
                                 RELATES_TO, "", FALSE, 0).links
                   ELSE lk
         IN  LinkedGraph(l1, pairs \ {p}, ways)

PathInit ==
    /\ \E ways \in [PathPairs -> PathLinkWays] :
          /\ links = LinkedGraph(EmptyMap, PathPairs, ways)
          /\ links_file = links
    /\ path_in = NoPathInput
    /\ path_out = NoPathOutput
    /\ sal_in = NoSalienceInput
    /\ sal_out = NoSalienceOutput
    /\ chroma = NoCollections
    /\ recall_in = NoRecallInput
    /\ recall_out = NoRecallOutput
    /\ now = 0
    /\ tracker = EmptyMap
    /\ tracking_file = EmptyMap
    /\ data = EmptyMap
    /\ storage_file = EmptyMap
    /\ examples = [m \in MemIds |-> NoFile]
    /\ archive = [p \in ArchivePaths |-> NoDoc]
    /\ result = NoResult
    /\ archived_from = [m \in MemIds |-> NoVerbatim]
    /\ tin = NoTierInput
    /\ tout = NoTierOutput

\* from_id arguments of find_path
PathSources == {"m1"}

PathNext ==
    \E from_id \in PathSources, to_id \in PathIds, max_depth \in MaxDepths,
       order \in Orders : FindPath(from_id, to_id, max_depth, order)

PathSpec == PathInit /\ [][PathNext]_vars

\* ===================================================== reinforcement alone

\* record_feedback is not called with helpful=True on a score this high
MaxUseful == 180
\* record_repetition is not called on a memory seen this many times
MaxRepeat == 2
\* boost is not called when it would take explicit_boost below minus this
MaxBoostDebt == 300

\* amount arguments of boost, the default among them
TrackerBoostAmounts == {0 - 300, 200, 500}

\* usefulness_score after record_feedback(memory_id, helpful)
feedback_score_NoClamp(score, helpful) ==
    IF helpful THEN score + 30 ELSE score - 50

feedback_score(score, helpful) ==
    IF helpful THEN score + 30 ELSE Max(0, score - 50)

\* ReinforcementTracker.record_feedback(memory_id, helpful)
RecordFeedback(m, helpful) ==
    LET t1 == TrackerGet(tracker, m)
        entry == t1[m]
    IN  /\ helpful => entry.usefulness_score < MaxUseful
        /\ tracker' = [t1 EXCEPT ![m].usefulness_score =
                          feedback_score(@, helpful)]
        /\ tracking_file' = tracker'
        /\ result' = NoResult
        /\ UNCHANGED <<now, data, storage_file, examples, archive,
                       archived_from, tin, sal_in, sal_out, chroma, recall_in,
                       recall_out, tout, links, links_file, path_in, path_out>>

\* ReinforcementTracker.record_repetition(memory_id)
RecordRepetition(m) ==
    LET t1 == TrackerGet(tracker, m)
        entry == t1[m]
    IN  /\ entry.repetition_count < MaxRepeat
        /\ tracker' = [t1 EXCEPT ![m].repetition_count = @ + 1]
        /\ tracking_file' = tracker'
        /\ result' = NoResult
        /\ UNCHANGED <<now, data, storage_file, examples, archive,
                       archived_from, tin, sal_in, sal_out, chroma, recall_in,
                       recall_out, tout, links, links_file, path_in, path_out>>

\* ReinforcementTracker.add_link(from_id, to_id)
TrackerAddLink(from_id, to_id) ==
    \E r \in {tracker_add_link(tracker, tracking_file, from_id, to_id)} :
        /\ tracker' = r.tracker
        /\ tracking_file' = r.tracking_file
        /\ result' = NoResult
        /\ UNCHANGED <<now, data, storage_file, examples, archive,
                       archived_from, tin, sal_in, sal_out, chroma, recall_in,
                       recall_out, tout, links, links_file, path_in, path_out>>

\* boost with any amount, the record's explicit_boost kept in the range
\* the model explores
BoostAny(m, amount, lock) ==
    /\ TrackerGet(tracker, m)[m].explicit_boost + amount >= 0 - MaxBoostDebt
    /\ Boost(m, amount, lock)

\* initial_salience arguments of record_access: a low one and the highest
TrackerObserved == {200, 1000}

TrackerInit == Init /\ examples["m2"] = NoFile

TrackerNext ==
    \/ \E m \in AccessedIds, s \in TrackerObserved : RecordAccess(m, s)
    \/ \E m \in AccessedIds, a \in TrackerBoostAmounts, l \in BOOLEAN :
          BoostAny(m, a, l)
    \/ \E m \in AccessedIds, h \in BOOLEAN : RecordFeedback(m, h)
    \/ \E m \in AccessedIds : RecordRepetition(m)
    \/ \E m \in AccessedIds : TrackerAddLink("m2", m)

TrackerSpec == TrackerInit /\ [][TrackerNext]_vars

\* ===================================================== all operations

\* initial_salience arguments of record_access: the default and two others
OpsObserved == {200, 500, 700}
\* amount argument of boost: the default
OpsBoostAmounts == {200}
\* record_feedback and record_repetition are not called beyond these values
\* of usefulness_score and repetition_count
MaxOpsUseful == 30
MaxOpsRepeat == 1

OpsFeedback(m, helpful) ==
    /\ RecordFeedback(m, helpful)
    /\ tracker'[m].usefulness_score <= MaxOpsUseful

OpsRepetition(m) ==
    /\ RecordRepetition(m)
    /\ tracker'[m].repetition_count <= MaxOpsRepeat

OpsInit == Init /\ examples["m2"] = NoFile

\* every operation that reads or writes the record of a memory, on one
\* memory, with the clock and a restart of the process
OpsNext ==
    \/ \E m \in AccessedIds, s \in OpsObserved : RecordAccess(m, s)
    \/ \E m \in AccessedIds, a \in OpsBoostAmounts, l \in BOOLEAN :
          Boost(m, a, l)
    \/ \E m \in AccessedIds, h \in BOOLEAN : OpsFeedback(m, h)
    \/ \E m \in AccessedIds : OpsRepetition(m)
    \/ \E m \in AccessedIds : AddLink("m2", m, ELABORATES, "", FALSE)
    \/ \E m \in AccessedIds : RemoveLink("m2", m, NoType)
    \/ \E d \in Elapsed : Tick(d)
    \/ \E m \in AccessedIds, l \in BOOLEAN : Lock(m, l)
    \/ \E m \in AccessedIds : UpdateTier(m)
    \/ Restart

OpsSpec == OpsInit /\ [][OpsNext]_vars

\* ===================================================== calculate_salience alone

\* ids of memories that link to the one whose salience is calculated
Linkers == <<"m2", "m3", "m4", "m5", "m6">>

\* access_count, len(linked_by), repetition_count, explicit_boost and
\* usefulness_score of the entries: below, one step below and at the caps of
\* their boosts
AccessCounts == {0, 1, 14, 15}
LinkCounts == {0, 3, 4}
RepetitionCounts == {0, 4, 5}
ExplicitBoosts == {0 - 300, 0, 400}
UsefulnessScores == {0, 120, 150}
InitialSaliences == {200, 500, 1000}
\* today, in days after the entry's last access
SalienceDays == {0, 8}
SalienceFiles == {NoFile, [exists |-> TRUE, gist_salience |-> 600,
                           verbatim |-> <<>>]}

\* the entries calculate_salience is given: one that was never accessed has
\* no last_accessed and the default initial_salience
SalienceEntries ==
    {[entry |-> [access_count |-> a,
                 last_accessed |-> IF a = 0 THEN NoTime ELSE 0,
                 linked_by |-> SubSeq(Linkers, 1, l),
                 repetition_count |-> r,
                 explicit_boost |-> b,
                 decay_immune |-> i,
                 usefulness_score |-> u,
                 initial_salience |-> IF a = 0 THEN 500 ELSE s],
      file |-> f, today |-> t] :
        a \in AccessCounts, l \in LinkCounts, r \in RepetitionCounts,
        b \in ExplicitBoosts, i \in BOOLEAN, u \in UsefulnessScores,
        s \in InitialSaliences, f \in SalienceFiles, t \in SalienceDays}

SalienceInit ==
    /\ sal_in \in SalienceEntries
    /\ sal_out = NoSalienceOutput
    /\ now = 0
    /\ tracker = EmptyMap
    /\ tracking_file = EmptyMap
    /\ data = EmptyMap
    /\ storage_file = EmptyMap
    /\ examples = [m \in MemIds |-> NoFile]
    /\ archive = [p \in ArchivePaths |-> NoDoc]
    /\ result = NoResult
    /\ archived_from = [m \in MemIds |-> NoVerbatim]
    /\ tin = NoTierInput
    /\ tout = NoTierOutput
    /\ links = EmptyMap
    /\ links_file = EmptyMap
    /\ path_in = NoPathInput
    /\ path_out = NoPathOutput
    /\ chroma = NoCollections
    /\ recall_in = NoRecallInput
    /\ recall_out = NoRecallOutput

\* calculate_salience("m1") on an entry, with the memory's YAML file
SalienceOf(entry, file, today) ==
    calculate_salience(entry, [m \in {"m1"} |-> file], "m1", today)

\* the entry after one more record_access on the day of its last access,
\* boost(amount=0.2), add_link from a new memory, record_repetition,
\* record_feedback(helpful=True), and with decay_immune the other way round
Raised(entry) ==
    [access_count |->
        [entry EXCEPT !.access_count = @ + 1,
                      !.last_accessed = IF @ = NoTime THEN 0 ELSE @],
     explicit_boost |-> [entry EXCEPT !.explicit_boost = Min(500, @ + 200)],
     linked_by |->
        [entry EXCEPT !.linked_by = Append(@, Linkers[Len(@) + 1])],
     repetition_count |-> [entry EXCEPT !.repetition_count = @ + 1],
     usefulness_score |-> [entry EXCEPT !.usefulness_score = @ + 30],
     decay_immune |-> [entry EXCEPT !.decay_immune = ~@]]

\* calculate_salience on the drawn entry, and on the entry with each of its
\* fields raised
SalienceCalc ==
    /\ sal_out = NoSalienceOutput
    /\ sal_out' =
        [returned |-> TRUE,
         salience |-> SalienceOf(sal_in.entry, sal_in.file, sal_in.today),
         raised |-> [f \in DOMAIN Raised(sal_in.entry) |->
                        SalienceOf(Raised(sal_in.entry)[f], sal_in.file,
                                   sal_in.today)]]
    /\ UNCHANGED <<now, tracker, tracking_file, data, storage_file, examples,
                   archive, result, archived_from, tin, tout, sal_in, chroma,
                   recall_in, recall_out, path_in, path_out, links,
                   links_file>>

SalienceNext == SalienceCalc

SalienceSpec == SalienceInit /\ [][SalienceNext]_vars

\* ===================================================== recall

\* similarity = 1 / (1 + dist): distances are in thousandths, the
\* similarity in millionths
Similarity(dist) == 1000000000 \div (1000 + dist)

\* round(x, 3): from millionths to thousandths
Round3(micro) == (micro + 500) \div 1000

\* "similarity < min_similarity", min_similarity in thousandths
BelowThreshold(dist, min_similarity) ==
    Similarity(dist) < min_similarity * 1000

\* _get_best_perspective: the perspective manager has a perspective for the
\* memory ("found"), has none ("none"), or raises ("fails"), which is caught
get_best_perspective(perspective) ==
    IF perspective = "found" THEN "best" ELSE "None"

NoMemory == [id |-> ""]

\* _build_memory_result that calculates the salience before it records the
\* access
build_memory_result_SalienceFirst(trk, ex, hit, call, today) ==
    IF BelowThreshold(hit.distance, call.min_similarity)
       /\ ~call.include_low_confidence
    THEN [accepted |-> FALSE, tracker |-> trk, memory |-> NoMemory]
    ELSE LET t1 == record_access(trk, hit.id, hit.salience, today)
         IN  [accepted |-> TRUE, tracker |-> t1,
              memory |->
                [id |-> hit.id,
                 similarity |-> Round3(Similarity(hit.distance)),
                 salience |-> calculate_salience(
                                  TrackerGet(trk, hit.id)[hit.id], ex,
                                  hit.id, today),
                 initial_salience |-> hit.salience,
                 summary |-> hit.summary,
                 perspective |-> get_best_perspective(call.perspective)]]

\* _build_memory_result on one search hit; call holds recall's arguments and
\* what its collaborators do during the call
build_memory_result(trk, ex, hit, call, today) ==
    IF BelowThreshold(hit.distance, call.min_similarity)
       /\ ~call.include_low_confidence
    THEN [accepted |-> FALSE, tracker |-> trk, memory |-> NoMemory]
    ELSE LET t1 == record_access(trk, hit.id, hit.salience, today)
         IN  [accepted |-> TRUE, tracker |-> t1,
              memory |->
                [id |-> hit.id,
                 similarity |-> Round3(Similarity(hit.distance)),
                 salience |-> calculate_salience(t1[hit.id], ex, hit.id,
                                                 today),
                 initial_salience |-> hit.salience,
                 summary |-> hit.summary,
                 perspective |-> get_best_perspective(call.perspective)]]

\* _search_collection: the first min(max_results * 2, count) entries of the
\* collection, which holds the memories nearest to the query first
search_collection(collection, max_results) ==
    IF Len(collection) = 0 THEN <<>>
    ELSE SubSeq(collection, 1, Min(max_results * 2, Len(collection)))

\* a loop that goes on after max_results memories
LoopStops_Never(memories, max_results) == FALSE

\* "if len(memories) >= max_results: break"
LoopStops(memories, max_results) == Len(memories) >= max_results

\* recall: the loop over the search hits, from hit i on
RECURSIVE recall_loop(_, _, _, _, _, _, _)
recall_loop(trk, ex, hits, i, memories, call, today) ==
    IF i > Len(hits)
    THEN [tracker |-> trk, memories |-> memories]
    ELSE LET r == build_memory_result(trk, ex, hits[i], call, today)
         IN  IF ~r.accepted
             THEN recall_loop(trk, ex, hits, i + 1, memories, call, today)
             ELSE IF LoopStops(Append(memories, r.memory), call.max_results)
             THEN [tracker |-> r.tracker,
                   memories |-> Append(memories, r.memory)]
             ELSE recall_loop(r.tracker, ex, hits, i + 1,
                              Append(memories, r.memory), call, today)

\* recall(query, min_similarity, max_results, include_low_confidence): what
\* it returns or that it raised, and the tracker and its file after it;
\* record_access saves the tracker
recall(trk, tf, ex, collection, call, today) ==
    IF call.search = "fails"
    THEN [raised |-> TRUE, tracker |-> trk, tracking_file |-> tf,
          memories |-> <<>>]
    ELSE LET r == recall_loop(trk, ex,
                      search_collection(collection, call.max_results), 1,
                      <<>>, call, today)
         IN  [raised |-> FALSE, tracker |-> r.tracker,
              tracking_file |-> IF r.memories = <<>> THEN tf ELSE r.tracker,
              memories |-> r.memories]

\* markdown_index.search_markdown(query, top_k): min_similarity is left at
\* its default 0.3
markdown_min_similarity == 300

search_markdown(chunks, top_k) ==
    LET found == IF Len(chunks) = 0 THEN <<>>
                 ELSE SubSeq(chunks, 1, Min(top_k, Len(chunks)))
        Near(c) == ~BelowThreshold(c.distance, markdown_min_similarity)
        kept == SelectSeq(found, Near)
    IN  [i \in 1..Len(kept) |->
            [content |-> kept[i].content, source |-> kept[i].source,
             keyword_bonus |-> kept[i].keyword_bonus,
             similarity |-> Round3(Similarity(kept[i].distance))]]

\* list.sort(key=lambda x: -x['similarity']): a stable sort
RECURSIVE SortBySimilarity(_)
SortBySimilarity(s) ==
    IF Len(s) <= 1 THEN s
    ELSE LET rest == SortBySimilarity(Tail(s))
             Strictly(x) == x.similarity > Head(s).similarity
             NotAbove(x) == x.similarity <= Head(s).similarity
         IN  SelectSeq(rest, Strictly) \o <<Head(s)>>
                 \o SelectSeq(rest, NotAbove)

\* markdown_index.hybrid_rerank: keyword_bonus is keyword_weight *
\* (keyword_hits / len(query_terms)) of the chunk for the query
hybrid_rerank(results) ==
    SortBySimilarity(
        [i \in 1..Len(results) |->
            [results[i] EXCEPT
                !.similarity = Min(1000, @ + results[i].keyword_bonus)]])

\* corpus results scaled after the merge sort
Weighted_Unscaled(similarity, corpus_weight) == similarity

\* round(r['similarity'] * corpus_weight, 3)
Weighted(similarity, corpus_weight) == Round3(similarity * corpus_weight)

\* _build_corpus_results
build_corpus_results(chunks, call) ==
    LET raw_corpus == hybrid_rerank(search_markdown(chunks, call.max_results))
        Keep(r) == ~(r.similarity < call.min_similarity
                     /\ ~call.include_low_confidence)
        kept == SelectSeq(raw_corpus, Keep)
    IN  [i \in 1..Len(kept) |->
            [id |-> "md:" \o kept[i].source,
             similarity |-> Weighted(kept[i].similarity, call.corpus_weight),
             salience |-> kept[i].similarity,
             initial_salience |-> kept[i].similarity,
             summary |-> kept[i].content,
             perspective |-> "None",
             result_type |-> "markdown_chunk"]]

\* a text: its first 100 characters, and what follows them
Text(prefix, rest) == [prefix |-> prefix, rest |-> rest]
NoText == Text("", "")

\* s.lower().strip() for the texts of the model
LowerStrip(s) == IF s \in {"Alpha", "alpha "} THEN "alpha" ELSE s

\* r.get('summary', '')[:100].lower().strip()
ContentKey(summary) == LowerStrip(summary.prefix)

\* _deduplicate_results: the loop over merged, from entry i on
RECURSIVE deduplicate_loop(_, _, _, _, _)
deduplicate_loop(merged, i, seen_content, deduped, max_results) ==
    IF i > Len(merged) THEN deduped
    ELSE LET content_key == ContentKey(merged[i].summary)
         IN  IF content_key # "" /\ content_key \in seen_content
             THEN deduplicate_loop(merged, i + 1, seen_content, deduped,
                                   max_results)
             ELSE IF Len(deduped) + 1 >= max_results
             THEN Append(deduped, merged[i])
             ELSE deduplicate_loop(merged, i + 1,
                                   seen_content \cup {content_key},
                                   Append(deduped, merged[i]), max_results)

deduplicate_results(merged, max_results) ==
    deduplicate_loop(merged, 1, {}, <<>>, max_results)

\* r['result_type'] = 'gist_memory'
GistMemory(r) ==
    [f \in DOMAIN r \cup {"result_type"} |->
        IF f = "result_type" THEN "gist_memory" ELSE r[f]]

\* recall_hybrid: recall, then the corpus search, the merge and the
\* deduplication; the accesses recall recorded stay when the corpus search
\* raises
recall_hybrid(trk, tf, ex, db, call, today) ==
    LET g == recall(trk, tf, ex, db.gist_memories, call, today)
        gist_results == [i \in 1..Len(g.memories) |->
                            GistMemory(g.memories[i])]
        corpus_results == build_corpus_results(db.markdown_chunks, call)
        merged == SortBySimilarity(gist_results \o corpus_results)
    IN  IF g.raised THEN g
        ELSE IF call.markdown = "fails"
        THEN [raised |-> TRUE, tracker |-> g.tracker,
              tracking_file |-> g.tracking_file, memories |-> <<>>]
        ELSE [raised |-> FALSE, tracker |-> g.tracker,
              tracking_file |-> g.tracking_file,
              memories |-> deduplicate_results(merged, call.max_results)]

\* one call of recall
Recall(call) ==
    /\ recall_in = NoRecallInput
    /\ \E r \in {recall(tracker, tracking_file, examples,
                        chroma.gist_memories, call, now)} :
        /\ recall_in' = [call EXCEPT !.op = "recall"]
        /\ recall_out' = [returned |-> ~r.raised, raised |-> r.raised,
                          memories |-> r.memories]
        /\ tracker' = r.tracker
        /\ tracking_file' = r.tracking_file
    /\ result' = NoResult
    /\ UNCHANGED <<now, data, storage_file, examples, archive, archived_from,
                   tin, tout, sal_in, sal_out, chroma, links, links_file,
                   path_in, path_out>>

\* one call of recall_hybrid
RecallHybrid(call) ==
    /\ recall_in = NoRecallInput
    /\ \E r \in {recall_hybrid(tracker, tracking_file, examples, chroma,
                               call, now)} :
        /\ recall_in' = [call EXCEPT !.op = "recall_hybrid"]
        /\ recall_out' = [returned |-> ~r.raised, raised |-> r.raised,
                          memories |-> r.memories]
        /\ tracker' = r.tracker
        /\ tracking_file' = r.tracking_file
    /\ result' = NoResult
    /\ UNCHANGED <<now, data, storage_file, examples, archive, archived_from,
                   tin, tout, sal_in, sal_out, chroma, links, links_file,
                   path_in, path_out>>

\* distances of the indexed memories from the query: similarity 0.9, 0.5
\* and just under 0.35
GistDistances == {111, 1000, 1858}

\* the collection's entry of a memory: metadata salience (0.5 when the
\* metadata has none) and the summary of the file at its filepath ('' when
\* it cannot be loaded)
GistHit(m, dist) ==
    [id |-> m, distance |-> dist,
     salience |-> IF m = "m1" THEN 700 ELSE 500,
     summary |-> IF m = "m1" THEN Text("alpha", "") ELSE NoText]

\* the gist_memories collection as a query sees it, nearest first
GistCollections ==
    {<<>>}
    \cup {<<GistHit(a, d)>> : a \in MemIds, d \in GistDistances}
    \cup {<<GistHit(p[1], d1), GistHit(p[2], d2)>> :
            p \in {q \in MemIds \X MemIds : q[1] # q[2]},
            d1 \in GistDistances, d2 \in GistDistances}

Sorted(collection) ==
    \A i \in 1..Len(collection) : \A j \in i..Len(collection) :
        collection[i].distance <= collection[j].distance

\* max_results of a call is 1..MaxResultsIn
MaxResultsIn == 2
\* min_similarity: the default and a stricter one
MinSimilarities == {350, 600}
\* corpus_weight: the default and 1
CorpusWeights == {800, 1000}

RecallCalls ==
    [op : {"none"}, min_similarity : MinSimilarities,
     max_results : 1..MaxResultsIn, include_low_confidence : BOOLEAN,
     corpus_weight : {800}, search : {"ok", "fails"}, markdown : {"ok"},
     perspective : {"found", "none", "fails"}]

\* the trackers as Init leaves them, with memories indexed in gist_memories
RecallInit ==
    /\ chroma \in {[NoCollections EXCEPT !.gist_memories = c] :
                      c \in {x \in GistCollections : Sorted(x)}}
    /\ recall_in = NoRecallInput
    /\ recall_out = NoRecallOutput
    /\ now = 0
    /\ tracker = EmptyMap
    /\ tracking_file = EmptyMap
    /\ data = EmptyMap
    /\ storage_file = EmptyMap
    /\ examples \in [MemIds -> UNION {ExampleFiles(m) : m \in MemIds}]
    /\ examples["m1"] \in ExampleFiles("m1")
    /\ examples["m2"] = NoFile
    /\ archive = [p \in ArchivePaths |-> NoDoc]
    /\ result = NoResult
    /\ archived_from = [m \in MemIds |-> NoVerbatim]
    /\ tin = NoTierInput
    /\ tout = NoTierOutput
    /\ links = EmptyMap
    /\ links_file = EmptyMap
    /\ path_in = NoPathInput
    /\ path_out = NoPathOutput
    /\ sal_in = NoSalienceInput
    /\ sal_out = NoSalienceOutput

\* what happens to the tracker before the call: earlier accesses, with the
\* memory's metadata salience not passed on, and days going by
RecallSetup ==
    /\ recall_in = NoRecallInput
    /\ \/ \E m \in MemIds : RecordAccess(m, 500)
       \/ \E d \in Elapsed : Tick(d)

RecallNext ==
    \/ RecallSetup
    \/ \E call \in RecallCalls : Recall(call)

RecallSpec == RecallInit /\ [][RecallNext]_vars

\* distances of the indexed markdown chunks from the query
ChunkDistances == {111, 1000}
\* keyword_weight * (keyword_hits / len(query_terms)): no query term in the
\* chunk, or all of them
KeywordBonuses == {0, 200}
ChunkSources == {"notes#L1", "notes#L9"}

\* the collection's entry of a chunk
Chunk(source, dist, bonus) ==
    [source |-> source, distance |-> dist, keyword_bonus |-> bonus,
     content |-> IF source = "notes#L1" THEN Text("Alpha", " and more")
                 ELSE Text("beta", "")]

\* the markdown_chunks collection as a query sees it, nearest first
ChunkCollections ==
    {<<>>}
    \cup {<<Chunk(a, d, k)>> :
            a \in ChunkSources, d \in ChunkDistances, k \in KeywordBonuses}
    \cup {<<Chunk(p[1], d1, k1), Chunk(p[2], d2, k2)>> :
            p \in {q \in ChunkSources \X ChunkSources : q[1] # q[2]},
            d1 \in ChunkDistances, d2 \in ChunkDistances,
            k1 \in KeywordBonuses, k2 \in KeywordBonuses}

HybridCalls ==
    [op : {"none"}, min_similarity : MinSimilarities,
     max_results : 1..MaxResultsIn, include_low_confidence : BOOLEAN,
     corpus_weight : CorpusWeights, search : {"ok", "fails"},
     markdown : {"ok", "fails"}, perspective : {"none"}]

\* the collection when no memory's file can be loaded: every summary is ''
Unloadable(collection) ==
    [i \in 1..Len(collection) |-> [collection[i] EXCEPT !.summary = NoText]]

HybridGistCollections ==
    {x \in GistCollections : Sorted(x)}
    \cup {Unloadable(x) : x \in {y \in GistCollections : Sorted(y)}}

\* as RecallInit, with chunks indexed in markdown_chunks
HybridInit ==
    /\ chroma \in {[gist_memories |-> c, markdown_chunks |-> k] :
                      c \in HybridGistCollections,
                      k \in {x \in ChunkCollections : Sorted(x)}}
    /\ recall_in = NoRecallInput
    /\ recall_out = NoRecallOutput
    /\ now = 0
    /\ tracker = EmptyMap
    /\ tracking_file = EmptyMap
    /\ data = EmptyMap
    /\ storage_file = EmptyMap
    /\ examples \in [MemIds -> UNION {ExampleFiles(m) : m \in MemIds}]
    /\ examples["m1"] \in ExampleFiles("m1")
    /\ examples["m2"] = NoFile
    /\ archive = [p \in ArchivePaths |-> NoDoc]
    /\ result = NoResult
    /\ archived_from = [m \in MemIds |-> NoVerbatim]
    /\ tin = NoTierInput
    /\ tout = NoTierOutput
    /\ links = EmptyMap
    /\ links_file = EmptyMap
    /\ path_in = NoPathInput
    /\ path_out = NoPathOutput
    /\ sal_in = NoSalienceInput
    /\ sal_out = NoSalienceOutput

HybridNext == \E call \in HybridCalls : RecallHybrid(call)

HybridSpec == HybridInit /\ [][HybridNext]_vars

\* ===================================================== link claims

\* the number of outbound entries of m to target_id of link_type, and of
\* inbound entries of m from source_id of link_type
OutCount(lk, m, target_id, link_type) ==
    IF m \notin DOMAIN lk THEN 0
    ELSE Cardinality({i \in 1..Len(lk[m].outbound) :
            /\ lk[m].outbound[i].target_id = target_id
            /\ lk[m].outbound[i].link_type = link_type})

InCount(lk, m, source_id, link_type) ==
    IF m \notin DOMAIN lk THEN 0
    ELSE Cardinality({i \in 1..Len(lk[m].inbound) :
            /\ lk[m].inbound[i].source_id = source_id
            /\ lk[m].inbound[i].link_type = link_type})

\* no outbound list holds two entries with the same (target_id, link_type)
\* and no inbound list two entries with the same (source_id, link_type)
NoDuplicateLinks(lk) ==
    \A m \in DOMAIN lk :
        /\ \A i, j \in 1..Len(lk[m].outbound) :
              (/\ lk[m].outbound[i].target_id = lk[m].outbound[j].target_id
               /\ lk[m].outbound[i].link_type = lk[m].outbound[j].link_type)
              => i = j
        /\ \A i, j \in 1..Len(lk[m].inbound) :
              (/\ lk[m].inbound[i].source_id = lk[m].inbound[j].source_id
               /\ lk[m].inbound[i].link_type = lk[m].inbound[j].link_type)
              => i = j

\* C10: after any sequence of add_link / remove_link calls no outbound list
\* holds two entries with the same (target_id, link_type) and no inbound list
\* two entries with the same (source_id, link_type), in the manager's data
\* and in the links file; a bidirectional add_link(source, target, type)
\* leaves exactly one forward and one inverse edge, saved, and a second call
\* with the same source, target and type, whatever its note and its date,
\* changes nothing in the link data.
C10_AddLinkIdempotent ==
    /\ [](NoDuplicateLinks(links) /\ NoDuplicateLinks(links_file))
    /\ [][(result'.op = "add_link" /\ result'.ret.bidirectional) =>
            LET s == result'.ret.source
                t == result'.ret.target
                ty == result'.ret.type
            IN  (\E n \in Notes : AddLink(s, t, ty, n, TRUE)) =>
                    /\ OutCount(links', s, t, ty) = 1
                    /\ OutCount(links', t, s, inverse(ty)) = 1
                    /\ InCount(links', t, s, ty) = 1
                    /\ InCount(links', s, t, inverse(ty)) = 1
                    /\ links_file' = links'
                    /\ \A n2 \in Notes :
                          add_link(links', tracker', tracking_file', s, t, ty,
                                   n2, TRUE, now' + 1).links = links']_vars

\* add_link("m2", "m1", elaborates, bidirectional) has been called on a graph
\* that held the forward edge already: the forward edge is there once, with
\* the note of the earlier call, next to the inverse edge of this call
C10_Witness ==
    /\ result = [op |-> "add_link", id |-> "m2",
                 ret |-> [source |-> "m2", target |-> "m1",
                          type |-> ELABORATES, bidirectional |-> TRUE]]
    /\ DOMAIN links = {"m1", "m2"}
    /\ Len(links["m2"].outbound) = 1
    /\ links["m2"].outbound[1].target_id = "m1"
    /\ links["m2"].outbound[1].link_type = ELABORATES
    /\ links["m2"].outbound[1].note = ""
    /\ Len(links["m1"].outbound) = 1
    /\ links["m1"].outbound[1].target_id = "m2"
    /\ links["m1"].outbound[1].link_type = RELATES_TO
    /\ links["m1"].outbound[1].note = "[inverse] see"

\* the inverse of each link type as the specification lists it
ListedInverse(link_type) ==
    CASE link_type = ELABORATES -> RELATES_TO
      [] link_type = SUPERSEDES -> RELATES_TO
      [] link_type = CAUSED_BY -> LEADS_TO
      [] link_type = LEADS_TO -> CAUSED_BY
      [] link_type = CONTRADICTS -> CONTRADICTS
      [] link_type = RELATES_TO -> RELATES_TO

\* the outbound list of m, empty when m has no link record yet
OutboundOf(lk, m) == IF m \in DOMAIN lk THEN lk[m].outbound ELSE <<>>

\* C11: a bidirectional add_link(source, target, type) leaves in target's
\* outbound list an edge to source of the listed inverse type, for each of the
\* six link types and from every reachable graph; a call with
\* bidirectional=false adds no inverse edge: target's outbound list is
\* unchanged, but for the forward entry itself when source and target are
\* the same memory.
C11_InverseEdge ==
    /\ [](\A s \in MemIds, t \in MemIds, ty \in LinkType :
            OutCount(add_link(links, tracker, tracking_file, s, t, ty, "",
                              TRUE, now).links, t, s, ListedInverse(ty)) = 1)
    /\ [][result'.op = "add_link" =>
            LET s == result'.ret.source
                t == result'.ret.target
                ty == result'.ret.type
            IN  IF result'.ret.bidirectional
                THEN OutCount(links', t, s, ListedInverse(ty)) = 1
                ELSE \/ links'[t].outbound = OutboundOf(links, t)
                     \/ /\ s = t
                        /\ OutCount(links, t, s, ty) = 0
                        /\ links'[t].outbound =
                             Append(OutboundOf(links, t),
                                    OutboundEntry(s, t, ty,
                                        links'[t].outbound[
                                            Len(links'[t].outbound)].note,
                                        now))]_vars

\* add_link("m2", "m1", elaborates) with bidirectional=true has left the
\* relates_to edge from m1 to m2, and no elaborates edge from m1 to m2
C11_Witness ==
    /\ result = [op |-> "add_link", id |-> "m2",
                 ret |-> [source |-> "m2", target |-> "m1",
                          type |-> ELABORATES, bidirectional |-> TRUE]]
    /\ OutCount(links, "m1", "m2", RELATES_TO) = 1
    /\ OutCount(links, "m2", "m1", ELABORATES) = 1
    /\ OutCount(links, "m1", "m2", ELABORATES) = 0
    /\ Len(links["m1"].outbound) = 1

\* the number of outbound and inbound entries of the whole graph
RECURSIVE TotalEntries(_, _)
TotalEntries(lk, ids) ==
    IF ids = {} THEN 0
    ELSE LET m == CHOOSE x \in ids : TRUE
         IN  Len(lk[m].outbound) + Len(lk[m].inbound)
               + TotalEntries(lk, ids \ {m})

\* lk2 is lk but for empty link records of memories that had none
SameLinkData(lk, lk2) ==
    /\ \A m \in DOMAIN lk : m \in DOMAIN lk2 /\ lk2[m] = lk[m]
    /\ \A m \in DOMAIN lk2 \ DOMAIN lk : lk2[m] = MemoryLinks

\* C12 as claimed: remove_link returns true exactly when the call removed an
\* outbound or inbound entry of either endpoint, and a call that returns false
\* leaves the link data of every node unchanged.
C12_Claimed ==
    [][result'.op = "remove_link" =>
        /\ result'.ret <=>
             (TotalEntries(links', DOMAIN links')
                < TotalEntries(links, DOMAIN links))
        /\ ~result'.ret => SameLinkData(links, links')]_vars

\* the inbound list of m, empty when m has no link record yet
InboundOf(lk, m) == IF m \in DOMAIN lk THEN lk[m].inbound ELSE <<>>

\* every outbound entry of a to b, and inbound entry of a from b, of lk whose
\* type is not in types is still in lk2
Survive(lk, lk2, a, b, types) ==
    /\ \A i \in 1..Len(OutboundOf(lk, a)) :
          (/\ lk[a].outbound[i].target_id = b
           /\ lk[a].outbound[i].link_type \notin types)
          => \E j \in 1..Len(lk2[a].outbound) :
                lk2[a].outbound[j] = lk[a].outbound[i]
    /\ \A i \in 1..Len(InboundOf(lk, a)) :
          (/\ lk[a].inbound[i].source_id = b
           /\ lk[a].inbound[i].link_type \notin types)
          => \E j \in 1..Len(lk2[a].inbound) :
                lk2[a].inbound[j] = lk[a].inbound[i]

\* C13 as claimed: remove_link(source, target, type) with a type given removes
\* no edge between the pair, in either direction, whose type is neither the
\* given type nor its inverse.
C13_Claimed ==
    [][\A s \in MemIds, t \in MemIds, ty \in LinkTypeInputs :
        (result'.op = "remove_link" /\ result'.id = s /\ RemoveLink(s, t, ty))
        => /\ Survive(links, links', s, t, {ty, inverse(ty)})
           /\ Survive(links, links', t, s, {ty, inverse(ty)})]_vars

\* no outbound or inbound entry of a refers to b
NoEntryBetween(lk, a, b) ==
    /\ \A i \in 1..Len(lk[a].outbound) : lk[a].outbound[i].target_id # b
    /\ \A i \in 1..Len(lk[a].inbound) : lk[a].inbound[i].source_id # b

\* the outbound and inbound entries of a that do not refer to b are the same,
\* in the same order, in lk and lk2
OthersUnchanged(lk, lk2, a, b) ==
    /\ SelectSeq(lk2[a].outbound, LAMBDA l : l.target_id # b) =
         SelectSeq(OutboundOf(lk, a), LAMBDA l : l.target_id # b)
    /\ SelectSeq(lk2[a].inbound, LAMBDA l : l.source_id # b) =
         SelectSeq(InboundOf(lk, a), LAMBDA l : l.source_id # b)

\* C14: after remove_link(source, target) with the type omitted, no outbound
\* or inbound entry of source refers to target and none of target refers to
\* source, in the manager's data; the entries of both that refer to other
\* memories, and the records of all other memories, are unchanged.
C14_RemoveAllBetween ==
    [][\A s \in MemIds, t \in MemIds :
        (result'.op = "remove_link" /\ result'.id = s
            /\ RemoveLink(s, t, NoType))
        => /\ NoEntryBetween(links', s, t)
           /\ NoEntryBetween(links', t, s)
           /\ OthersUnchanged(links, links', s, t)
           /\ OthersUnchanged(links, links', t, s)
           /\ \A m \in DOMAIN links \ {s, t} : links'[m] = links[m]]_vars

\* the elaborates edge m2 -> m1 (m2 is in m1's linked_by) has been removed at
\* both ends while m1's link to itself is still there
C14_Witness ==
    /\ result = [op |-> "remove_link", id |-> "m2", ret |-> TRUE]
    /\ DOMAIN links = {"m1", "m2"}
    /\ links["m2"] = MemoryLinks
    /\ NoEntryBetween(links, "m1", "m2")
    /\ OutCount(links, "m1", "m1", CONTRADICTS) = 1
    /\ InCount(links, "m1", "m1", CONTRADICTS) = 1
    /\ "m1" \in DOMAIN tracker
    /\ \E i \in 1..Len(tracker["m1"].linked_by) :
          tracker["m1"].linked_by[i] = "m2"

\* ===================================================== path claims

\* a and b are joined by an edge of the undirected union of the outbound and
\* inbound entries
Adjacent(lk, a, b) ==
    \/ \E i \in 1..Len(OutboundOf(lk, a)) : lk[a].outbound[i].target_id = b
    \/ \E i \in 1..Len(InboundOf(lk, a)) : lk[a].inbound[i].source_id = b
    \/ \E i \in 1..Len(OutboundOf(lk, b)) : lk[b].outbound[i].target_id = a
    \/ \E i \in 1..Len(InboundOf(lk, b)) : lk[b].inbound[i].source_id = a

\* reference search: the memories within k hops of from_id
RECURSIVE Within(_, _, _)
Within(lk, from_id, k) ==
    IF k <= 0 THEN {from_id}
    ELSE LET near == Within(lk, from_id, k - 1)
         IN  near \cup {b \in PathIds : \E a \in near : Adjacent(lk, a, b)}

\* C15: find_path(from, to, max_depth) with max_depth >= 0 returns [from] when
\* from = to; otherwise it returns a path exactly when to is within max_depth
\* hops of from in the undirected union of outbound and inbound edges, and the
\* path starts at from, ends at to, joins consecutive ids by an edge, repeats
\* no id and has the minimal number of hops.
C15_FindPathIsBFS ==
    (path_out.returned /\ path_in.max_depth >= 0) =>
        LET from_id == path_in.from_id
            to_id == path_in.to_id
            path == path_out.path
            hops == Len(path) - 1
        IN  IF from_id = to_id
            THEN path_out.found /\ path = <<from_id>>
            ELSE /\ path_out.found <=>
                      to_id \in Within(links, from_id, path_in.max_depth)
                 /\ path_out.found =>
                      /\ path[1] = from_id /\ path[Len(path)] = to_id
                      /\ \A i \in 1..hops :
                            Adjacent(links, path[i], path[i + 1])
                      /\ \A i, j \in 1..Len(path) : path[i] = path[j] => i = j
                      /\ hops <= path_in.max_depth
                      /\ to_id \in Within(links, from_id, hops)
                      /\ to_id \notin Within(links, from_id, hops - 1)

\* find_path has returned a path of three hops that leaves m1 by an inbound
\* entry, m1 having no outbound entry, and reaches m2 last
C15_Witness ==
    /\ path_out.returned /\ path_out.found
    /\ path_in.max_depth = 3
    /\ Len(path_out.path) = 4
    /\ path_out.path[4] = "m2"
    /\ links["m1"].outbound = <<>>
    /\ Len(links["m1"].inbound) = 1

\* C16 as claimed: find_path called with max_depth < 0 is rejected with an
\* error.
C16_Claimed ==
    (path_out.returned /\ path_in.max_depth < 0) => path_out.raised

\* C17: add_link with a link type that is none of the six is rejected with an
\* error, and the rejected call leaves the link data of every memory, the
\* links file, every ReinforcementData (linked_by) and the tracking file
\* unchanged.
C17_UnknownTypeRejected ==
    [][\A s \in MemIds, t \in LinkTargets, ty \in InvalidLinkTypes,
          n \in Notes, b \in BOOLEAN :
        AddLink(s, t, ty, n, b) =>
            /\ result' = [op |-> "add_link raised", id |-> s,
                          ret |-> "ValueError"]
            /\ links' = links /\ links_file' = links_file
            /\ tracker' = tracker /\ tracking_file' = tracking_file]_vars

\* add_link from m2 with an unknown type has been rejected on a graph that
\* holds the edge m2 -> m1 and its inverse
C17_Witness ==
    /\ result = [op |-> "add_link raised", id |-> "m2", ret |-> "ValueError"]
    /\ OutCount(links, "m2", "m1", ELABORATES) = 1
    /\ OutCount(links, "m1", "m2", RELATES_TO) = 1
    /\ links_file = links

\* from_id is in to_id's linked_by
LinkedBy(trk, to_id, from_id) ==
    /\ to_id \in DOMAIN trk
    /\ \E i \in 1..Len(trk[to_id].linked_by) :
          trk[to_id].linked_by[i] = from_id

\* every outbound edge S -> T of lk has S in T's linked_by of trk
EdgesAreLinkedBy(lk, trk) ==
    \A s \in DOMAIN lk : \A i \in 1..Len(lk[s].outbound) :
        LinkedBy(trk, lk[s].outbound[i].target_id, s)

\* no linked_by of trk holds an id twice
LinkedByIsSet(trk) ==
    \A m \in DOMAIN trk : \A i, j \in 1..Len(trk[m].linked_by) :
        trk[m].linked_by[i] = trk[m].linked_by[j] => i = j

\* C18: after any sequence of add_link / remove_link calls, every outbound
\* edge S -> T of the link graph has S in T's linked_by of the tracker, and no
\* linked_by holds an id twice; the same holds of the links file and the
\* tracking file.
C18_EdgesFeedLinkedBy ==
    /\ EdgesAreLinkedBy(links, tracker)
    /\ LinkedByIsSet(tracker)
    /\ EdgesAreLinkedBy(links_file, tracking_file)
    /\ LinkedByIsSet(tracking_file)

\* two add_link calls from m2 to m1, the second bidirectional, have left m2
\* once in m1's linked_by and m1 once in m2's
C18_Witness ==
    /\ DOMAIN links = {"m1", "m2"}
    /\ Len(links["m2"].outbound) = 1
    /\ links["m2"].outbound[1].target_id = "m1"
    /\ links["m2"].outbound[1].note = "see"
    /\ Len(links["m1"].outbound) = 1
    /\ links["m1"].outbound[1].target_id = "m2"
    /\ links["m1"].outbound[1].note = "[inverse link]"
    /\ tracker["m1"].linked_by = <<"m2">>
    /\ tracker["m2"].linked_by = <<"m1">>
    /\ tracking_file = tracker

\* ===================================================== reinforcement claims

\* C19 as claimed: after any sequence of boost calls with any amounts,
\* 0 <= explicit_boost <= 0.5 for every record.
C19_Claimed ==
    \A m \in DOMAIN tracker :
        0 <= tracker[m].explicit_boost /\ tracker[m].explicit_boost <= 500

\* C20: usefulness_score is never negative, in the tracker and in its file;
\* record_feedback adds 0.03 when helpful and subtracts 0.05 when not, the
\* result being clamped at 0, and changes no other field.
C20_UsefulnessNeverNegative ==
    /\ [](\A m \in DOMAIN tracker : tracker[m].usefulness_score >= 0)
    /\ [](\A m \in DOMAIN tracking_file :
            tracking_file[m].usefulness_score >= 0)
    /\ [][\A m \in AccessedIds, h \in BOOLEAN :
            RecordFeedback(m, h) =>
              LET before == TrackerGet(tracker, m)[m]
                  after == tracker'[m]
              IN  /\ h => after.usefulness_score =
                            before.usefulness_score + 30
                  /\ ~h /\ before.usefulness_score >= 50 =>
                       after.usefulness_score = before.usefulness_score - 50
                  /\ ~h /\ before.usefulness_score < 50 =>
                       after.usefulness_score = 0
                  /\ after = [before EXCEPT !.usefulness_score =
                                after.usefulness_score]
                  /\ tracking_file' = tracker']_vars

\* two helpful calls and an unhelpful one have left 0.01, and a further
\* unhelpful call would be clamped
C20_Witness ==
    /\ "m1" \in DOMAIN tracker
    /\ tracker["m1"].usefulness_score = 10
    /\ tracking_file = tracker

\* ===================================================== record claims

\* access_count of a memory's record; a memory without a record has not
\* been accessed
AccessCount(trk, m) == IF m \in DOMAIN trk THEN trk[m].access_count ELSE 0

\* C21: access_count only grows.  Every record_access call on an id raises
\* that record's access_count by exactly 1 and sets last_accessed to the
\* time of the call, also when the memory was already accessed that day, and
\* no step of any operation (boost, record_feedback, record_repetition,
\* add_link, remove_link, lock, unlock, update_tier with the
\* calculate_salience it makes, a restart) lowers the access_count of any
\* memory.
C21_AccessCountMonotone ==
    [][ /\ \A m \in MemIds :
              AccessCount(tracker', m) >= AccessCount(tracker, m)
        /\ \A m \in AccessedIds :
              (\E s \in OpsObserved : RecordAccess(m, s)) =>
                  /\ AccessCount(tracker', m) = AccessCount(tracker, m) + 1
                  /\ tracker'[m].last_accessed = now ]_vars

\* m1 was accessed twice on day 0, after which it was boosted, linked to
\* and re-tiered, and still counts two accesses
C21_Witness ==
    /\ now = 0
    /\ "m1" \in DOMAIN tracker
    /\ tracker["m1"].access_count = 2
    /\ tracker["m1"].last_accessed = 0
    /\ tracker["m1"].explicit_boost > 0
    /\ Len(tracker["m1"].linked_by) = 1
    /\ result.op = "update_tier"

\* the salience of a record as calculate_salience returns it on the day of
\* its last access, when the recency factor is 1
Undecayed(entry, ex, m) ==
    calculate_salience(entry, ex, m, entry.last_accessed)

\* C22: decay_immune is permanent.  Once a record is decay-immune no step of
\* any operation (boost with lock=False, record_access, record_feedback,
\* record_repetition, link operations, lock and unlock of the storage tier,
\* update_tier, a restart) makes it not immune, and however many days have
\* passed since its last access calculate_salience returns its salience
\* without recency decay.
C22_DecayImmunePermanent ==
    /\ [][\A m \in MemIds : Immune(m) => Immune(m)']_vars
    /\ [](\A m \in MemIds :
            (Immune(m) /\ tracker[m].access_count > 0) =>
                calculate_salience(tracker[m], examples, m, now)
                    = Undecayed(tracker[m], examples, m))

\* m1 was locked by a boost, boosted again, accessed, and its storage tier
\* was locked and unlocked; days have passed since its last access
C22_Witness ==
    /\ Immune("m1")
    /\ tracker["m1"].explicit_boost = 400
    /\ tracker["m1"].access_count > 0
    /\ now > tracker["m1"].last_accessed
    /\ "m1" \in DOMAIN data
    /\ ~data["m1"].locked
    /\ data["m1"].tier = WARM

\* initial_salience of a memory's record; a memory without a record has the
\* default
InitialSalience(trk, m) ==
    IF m \in DOMAIN trk THEN trk[m].initial_salience
    ELSE ReinforcementData.initial_salience

\* C26: initial_salience is adopted once.  A record_access(id, observed)
\* call changes the record's initial_salience exactly when the stored value
\* is the default 0.5 and observed is not 0.5, and then to observed; once
\* the stored value is not 0.5 no record_access call with any observed value
\* changes it, and no step of another operation changes it either.
C26_InitialSalienceAdoptedOnce ==
    [][\A m \in AccessedIds :
        LET stored == InitialSalience(tracker, m)
            after == InitialSalience(tracker', m)
        IN  /\ \A s \in OpsObserved :
                 RecordAccess(m, s) =>
                    /\ (stored = 500 /\ s # 500) => after = s
                    /\ (stored # 500 \/ s = 500) => after = stored
            /\ after # stored =>
                 \E s \in OpsObserved : RecordAccess(m, s) ]_vars

\* m1 adopted 0.2 and was accessed again, with 0.2, 0.5 or 0.7
C26_Witness ==
    /\ "m1" \in DOMAIN tracker
    /\ tracker["m1"].initial_salience = 200
    /\ tracker["m1"].access_count = 2

\* days since the last access at which calculate_salience is called
ElapsedDays == 0 .. MaxDaysIn

\* C23: calculate_salience stays in [0, 1].  For every record that
\* record_access, boost, record_feedback, add_link and record_repetition
\* calls produce, with initial saliences in [0, 1], and however many days
\* after the record's last access it is called, calculate_salience returns
\* a value between 0 and 1 (0 and 1000 thousandths).
C23_SalienceInUnitRange ==
    \A m \in DOMAIN tracker : \A d \in ElapsedDays :
        LET today == IF tracker[m].last_accessed = NoTime THEN d
                     ELSE tracker[m].last_accessed + d
            salience == calculate_salience(tracker[m], examples, m, today)
        IN  salience >= 0 /\ salience <= 1000

\* m1 was observed with initial salience 1.0, accessed, linked to and
\* boosted: its raw salience exceeds 1 and what is returned is 1
C23_Witness ==
    /\ "m1" \in DOMAIN tracker
    /\ tracker["m1"].initial_salience = 1000
    /\ tracker["m1"].access_count > 0
    /\ tracker["m1"].explicit_boost = 500
    /\ Len(tracker["m1"].linked_by) = 1
    /\ calculate_salience(tracker["m1"], examples, "m1", now) = 1000

\* ===================================================== salience claims

\* the fields of an entry other than access_count that Raised changes
OtherFields ==
    {"explicit_boost", "linked_by", "repetition_count", "usefulness_score",
     "decay_immune"}

\* C24: zero-access bypass.  For an entry with access_count == 0
\* calculate_salience returns the gist salience of the memory's YAML file
\* when the file can be loaded and the entry's initial_salience otherwise,
\* and the same value after a boost, a new inbound link, a repetition, a
\* helpful feedback or a change of decay_immune.
C24_ZeroAccessBypass ==
    (sal_out.returned /\ sal_in.entry.access_count = 0) =>
        /\ sal_out.salience =
              IF sal_in.file.exists THEN sal_in.file.gist_salience
              ELSE sal_in.entry.initial_salience
        /\ \A f \in OtherFields : sal_out.raised[f] = sal_out.salience

\* a never-accessed entry with a boost, four inbound links, repetitions and
\* feedback, whose memory file has gist salience 0.6: 0.6 is returned
C24_Witness ==
    /\ sal_out.returned
    /\ sal_in.entry.access_count = 0
    /\ sal_in.entry.explicit_boost = 400
    /\ Len(sal_in.entry.linked_by) = 4
    /\ sal_in.entry.repetition_count = 5
    /\ sal_in.entry.usefulness_score = 150
    /\ sal_in.entry.decay_immune
    /\ sal_in.file.exists
    /\ sal_out.salience = 600

\* the fields calculate_salience is claimed to be non-decreasing in
\* (|linked_by| grows by one inbound link)
MonotoneFields ==
    {"access_count", "explicit_boost", "linked_by", "repetition_count",
     "usefulness_score"}

\* C25 as claimed: raising access_count, explicit_boost, |linked_by|,
\* repetition_count or usefulness_score of an entry, one at a time and with
\* the recency factor unchanged (a first access is made on the day
\* calculate_salience is called, so the factor stays 1), never lowers what
\* calculate_salience returns, the first access of a never-accessed entry
\* included.  Entries have an explicit_boost in [0, 0.5].
C25_Claimed ==
    (sal_out.returned
     /\ sal_in.entry.explicit_boost >= 0
     /\ (sal_in.entry.access_count = 0 => sal_in.today = 0)) =>
        \A f \in MonotoneFields : sal_out.raised[f] >= sal_out.salience

\* ===================================================== recall claims

\* a recall call was made and returned
Recalled == recall_in.op = "recall" /\ recall_out.returned

\* 1 / (1 + distance) >= min_similarity, in exact arithmetic
Similar(dist, min_similarity) ==
    1000 * 1000 >= min_similarity * (1000 + dist)

\* the ids of a list of hits or memories
Ids(s) == [i \in 1..Len(s) |-> s[i].id]
IdSet(s) == {s[i].id : i \in 1..Len(s)}

\* the hits of the backend's answer that pass the threshold, in its order
Passing(call, collection) ==
    LET hits == SubSeq(collection, 1,
                       Min(2 * call.max_results, Len(collection)))
        Pass(h) == call.include_low_confidence
                   \/ Similar(h.distance, call.min_similarity)
    IN  SelectSeq(hits, Pass)

\* C27: recall returns at most max_results memories, taken in the backend's
\* order: they are the first max_results hits, of the 2 * max_results the
\* backend is asked for, that pass the threshold, and no hit after them is
\* collected.  When include_low_confidence is false every returned memory
\* has 1 / (1 + distance) >= min_similarity.
C27_RecallBounded ==
    Recalled =>
        LET passing == Passing(recall_in, chroma.gist_memories)
            memories == recall_out.memories
        IN  /\ Len(memories) <= recall_in.max_results
            /\ Ids(memories) =
                  Ids(SubSeq(passing, 1,
                             Min(recall_in.max_results, Len(passing))))
            /\ ~recall_in.include_low_confidence =>
                  \A h \in {chroma.gist_memories[i] :
                              i \in 1..Len(chroma.gist_memories)} :
                      h.id \in IdSet(memories) =>
                          Similar(h.distance, recall_in.min_similarity)

\* recall(max_results=1) with two memories above the threshold indexed, and
\* recall with a memory indexed just below the default threshold: it
\* returned the first memory only
C27_Witness ==
    /\ Recalled
    /\ ~recall_in.include_low_confidence
    /\ recall_in.min_similarity = 350
    /\ Len(chroma.gist_memories) = 2
    /\ Len(recall_out.memories) = 1
    /\ \/ /\ recall_in.max_results = 1
          /\ chroma.gist_memories[2].distance = 1000
       \/ /\ recall_in.max_results = 2
          /\ chroma.gist_memories[2].distance = 1858

\* this step is a recall call that returns
RecallReturns ==
    /\ recall_in = NoRecallInput
    /\ recall_in'.op = "recall"
    /\ recall_out'.returned

\* the record of m is the same after the step, or m has none before and
\* after
RecordUnchanged(m) ==
    /\ m \in DOMAIN tracker' <=> m \in DOMAIN tracker
    /\ m \in DOMAIN tracker => tracker'[m] = tracker[m]

\* C28: a retrieval is an access, recorded before salience is calculated.
\* One recall call raises access_count by exactly 1 for each memory it
\* returns and leaves the record of every other memory (discarded below the
\* threshold, or after the max_results cut-off) unchanged; the salience of
\* each returned memory is what calculate_salience gives for the record
\* after the access, which has access_count >= 1, so the computed value and
\* not the one of the zero-access bypass.
C28_RetrievalIsAccess ==
    [][RecallReturns =>
        LET memories == recall_out'.memories
        IN  /\ \A m \in MemIds :
                  IF m \in IdSet(memories)
                  THEN /\ m \in DOMAIN tracker'
                       /\ tracker'[m].access_count
                             = AccessCount(tracker, m) + 1
                       /\ tracker'[m].last_accessed = now
                  ELSE RecordUnchanged(m)
            /\ \A i \in 1..Len(memories) :
                  LET entry == tracker'[memories[i].id]
                  IN  /\ entry.access_count >= 1
                      /\ memories[i].salience =
                            calculate_salience(entry, examples,
                                               memories[i].id, now)
            /\ tracking_file' = IF memories = <<>> THEN tracking_file
                                ELSE tracker' ]_vars

\* recall(max_results=1) returned the never-accessed m1, whose file has
\* gist salience 0.6, with salience 0.71 (metadata salience 0.7 and one
\* access), and did not touch m2, which was a hit too
C28_Witness ==
    /\ Recalled
    /\ recall_in.max_results = 1
    /\ Len(chroma.gist_memories) = 2
    /\ chroma.gist_memories[2].distance = 111
    /\ Len(recall_out.memories) = 1
    /\ recall_out.memories[1].id = "m1"
    /\ recall_out.memories[1].salience = 710
    /\ tracker["m1"].access_count = 1
    /\ "m2" \notin DOMAIN tracker

\* C29 as claimed: a call of recall or recall_hybrid during which the
\* vector search or the perspective lookup fails returns a list of
\* memories; the failure does not reach the caller.
C29_Claimed ==
    (recall_in.op # "none"
     /\ (recall_in.search = "fails" \/ recall_in.perspective = "fails")) =>
        recall_out.returned /\ ~recall_out.raised

\* a recall_hybrid call was made and returned
HybridRecalled == recall_in.op = "recall_hybrid" /\ recall_out.returned

\* the similarity of a chunk after the keyword boost, before corpus_weight
Boosted(c) == Min(1000, Round3(Similarity(c.distance)) + c.keyword_bonus)

\* s is ordered by descending similarity
Descending(s) ==
    \A i \in 1..Len(s) : \A j \in i..Len(s) :
        s[i].similarity >= s[j].similarity

\* C30: in recall_hybrid the score of every markdown hit is its similarity
\* times corpus_weight, rounded to three decimals, applied before the merge
\* sort; what is returned is ordered by descending score and has at most
\* max_results entries.  With a gist memory at similarity 0.9 and a chunk at
\* similarity 0.9 with corpus_weight 0.8 the chunk has score 0.72 and ranks
\* below the gist memory.
C30_CorpusWeightBeforeMerge ==
    HybridRecalled =>
        LET memories == recall_out.memories
            chunks == chroma.markdown_chunks
        IN  /\ \A i \in 1..Len(memories) :
                  memories[i].result_type = "markdown_chunk" =>
                      \E k \in 1..Len(chunks) :
                          /\ memories[i].id = "md:" \o chunks[k].source
                          /\ 2 * memories[i].similarity * 1000
                                >= 2 * Boosted(chunks[k])
                                       * recall_in.corpus_weight - 1000
                          /\ 2 * memories[i].similarity * 1000
                                <= 2 * Boosted(chunks[k])
                                       * recall_in.corpus_weight + 1000
            /\ Descending(memories)
            /\ Len(memories) <= recall_in.max_results
            /\ \A i \in 1..Len(memories) : \A j \in 1..Len(memories) :
                  (/\ memories[i].result_type = "gist_memory"
                   /\ memories[i].similarity = 900
                   /\ memories[j].result_type = "markdown_chunk"
                   /\ memories[j].salience = 900
                   /\ recall_in.corpus_weight = 800) =>
                      memories[j].similarity = 720 /\ i < j

\* recall_hybrid(corpus_weight=0.8) returned a gist memory with similarity
\* 0.9 first and a chunk of similarity 0.9 second, with score 0.72
C30_Witness ==
    /\ HybridRecalled
    /\ recall_in.corpus_weight = 800
    /\ Len(recall_out.memories) = 2
    /\ recall_out.memories[1].result_type = "gist_memory"
    /\ recall_out.memories[1].similarity = 900
    /\ recall_out.memories[2].result_type = "markdown_chunk"
    /\ recall_out.memories[2].salience = 900
    /\ recall_out.memories[2].similarity = 720

\* the leading 100 characters of two texts are identical, compared without
\* regard to case
SameLeadingText(a, b) == LowerStrip(a.prefix) = LowerStrip(b.prefix)

\* C31 as claimed: no two entries of what recall_hybrid returns have the
\* same leading 100 characters of summary, compared case-insensitively,
\* whatever their ids.
C31_Claimed ==
    HybridRecalled =>
        \A i \in 1..Len(recall_out.memories) :
            \A j \in 1..Len(recall_out.memories) :
                i # j => ~SameLeadingText(recall_out.memories[i].summary,
                                          recall_out.memories[j].summary)

\* ===================================================== persistence claims

\* trk2 is trk but for default records of memories that had none
SameTrackerData(trk, trk2) ==
    /\ \A m \in DOMAIN trk : m \in DOMAIN trk2 /\ trk2[m] = trk[m]
    /\ \A m \in DOMAIN trk2 \ DOMAIN trk : trk2[m] = ReinforcementData

\* C32 as claimed: whenever a call on the reinforcement tracker, the storage
\* manager or the link manager has returned, each state file holds what the
\* manager holds in memory, so that a fresh load observes the state the
\* caller sees.  Records that a manager created with their default values
\* on a read, and that a fresh load creates again on the same read, are not
\* counted as a difference.
C32_Claimed ==
    /\ SameTrackerData(tracking_file, tracker)
    /\ storage_file = data
    /\ SameLinkData(links_file, links)

\* ===================================================== archive failure claims

\* the archive store with the files at the paths `lost` missing
Without(ar, lost) == [p \in ArchivePaths |-> IF p \in lost THEN NoDoc ELSE ar[p]]

\* restore_verbatim has nothing to restore for the state: the flag is false,
\* or the path is unset, or no file is at the path
NothingArchived(state, ar) ==
    \/ ~state.verbatim_archived
    \/ state.archive_path = NoPath
    \/ ~ar[state.archive_path].exists

C34_LockOnlyLocked ==
    [][\A m \in MemIds, l \in BOOLEAN : Lock(m, l) =>
        LET before == StorageGet(data, m)[m]
        IN  /\ data'[m] = [before EXCEPT !.locked = l]
            /\ data'[m].tier = before.tier
            /\ data'[m].tier_changed = before.tier_changed
            /\ data'[m].verbatim_archived = before.verbatim_archived
            /\ data'[m].archive_path = before.archive_path
            /\ DOMAIN data' = DOMAIN data \cup {m}
            /\ \A o \in DOMAIN data \ {m} : data'[o] = data[o]]_vars

\* a COLD memory whose verbatim is archived has been locked and is COLD still
C34_Witness ==
    \E m \in DOMAIN data :
        /\ data[m].locked
        /\ data[m].tier = COLD
        /\ data[m].verbatim_archived
        /\ data[m].archive_path = ArchivePath(m)

\* ===================================================== concurrent callers

\* Another process runs while this one lives (each command is a process of
\* its own: `recall.py <query>`, `reinforcement.py boost <id>`).  It
\* constructs its own ReinforcementTracker, which loads the state file,
\* calls the method, which saves, and exits; this process's tracker keeps
\* the copy it loaded.

\* record_access(memory_id, initial_salience) in another process
ProcessRecordAccess(m, s) ==
    /\ TrackerGet(tracking_file, m)[m].access_count < MaxAccess
    /\ tracking_file' = record_access(tracking_file, m, s, now)
    /\ result' = NoResult
    /\ UNCHANGED <<now, tracker, data, storage_file, examples, archive,
                   archived_from, tin, sal_in, sal_out, chroma, recall_in,
                   recall_out, path_in, path_out, tout, links, links_file>>

\* `reinforcement.py boost <id> [--lock]` in another process:
\* tracker.boost(mem_id, lock=lock), the amount left at its default 0.2
ProcessBoost(m, lock) ==
    LET t1 == TrackerGet(tracking_file, m)
        entry == t1[m]
    IN  /\ tracking_file' = [t1 EXCEPT ![m] =
                [entry EXCEPT !.explicit_boost = Min(500, @ + 200),
                              !.decay_immune = IF lock THEN TRUE ELSE @]]
        /\ result' = NoResult
        /\ UNCHANGED <<now, tracker, data, storage_file, examples, archive,
                       archived_from, tin, sal_in, sal_out, chroma, recall_in,
                       recall_out, path_in, path_out, tout, links, links_file>>

\* two callers, each with the copy of the reinforcement map it loaded,
\* accessing and boosting two memories
ConcurrentNext ==
    \/ \E m \in MemIds : RecordAccess(m, 500)
    \/ \E m \in MemIds, l \in BOOLEAN : Boost(m, 200, l)
    \/ \E m \in MemIds : ProcessRecordAccess(m, 500)
    \/ \E m \in MemIds, l \in BOOLEAN : ProcessBoost(m, l)

ConcurrentSpec == Init /\ [][ConcurrentNext]_vars

\* the persisted record of m, the default one when the file has none
Persisted(file, m) == TrackerGet(file, m)[m]

\* C35 as claimed: no update is lost under two callers that each hold their
\* own loaded copy of the reinforcement map: every record_access call of
\* either caller raises the persisted access_count of its memory by one,
\* every boost call of either caller adds its amount to the persisted
\* explicit_boost (up to the cap 0.5), and no call changes the persisted
\* record of another memory.
C35_Claimed ==
    [][/\ \A m \in MemIds :
            (RecordAccess(m, 500) \/ ProcessRecordAccess(m, 500)) =>
                /\ Persisted(tracking_file', m).access_count =
                       Persisted(tracking_file, m).access_count + 1
                /\ \A o \in MemIds \ {m} :
                       Persisted(tracking_file', o) =
                           Persisted(tracking_file, o)
       /\ \A m \in MemIds, l \in BOOLEAN :
            (Boost(m, 200, l) \/ ProcessBoost(m, l)) =>
                /\ Persisted(tracking_file', m).explicit_boost =
                       Min(500, Persisted(tracking_file, m).explicit_boost
                                    + 200)
                /\ \A o \in MemIds \ {m} :
                       Persisted(tracking_file', o) =
                           Persisted(tracking_file, o)]_vars

\* ===================================================== never-accessed claims

\* m has no last access recorded and is not decay-immune
NeverAccessed(m) ==
    /\ TrackerGet(tracker, m)[m].last_accessed = NoTime
    /\ ~TrackerGet(tracker, m)[m].decay_immune

\* C36: a memory that was never accessed and is not decay-immune is COLD
\* for calculate_tier whatever its salience and access count, and WARM when
\* it is locked: on every such memory the program reaches, and on the tier
\* decision for every salience, access count and stored tier with "never" as
\* the days since access.  Its StorageState is created HOT on first
\* reference, so the first update_tier of such a memory, unless it is locked,
\* reports a change from HOT to COLD and stores COLD.
C36_NeverAccessedCold ==
    /\ \A l \in BOOLEAN, t \in StorageTier, s \in SalienceInputs,
          a \in 0..MaxAccessIn :
            TierDecision(l, t, FALSE, s, NeverAccessedDays, a).tier =
                IF l THEN WARM ELSE COLD
    /\ [](\A m \in MemIds : NeverAccessed(m) =>
            calculate_tier(StorageGet(data, m), tracker, examples, m,
                           now).tier =
                IF StorageGet(data, m)[m].locked THEN WARM ELSE COLD)
    /\ [][\A m \in MemIds :
            (result'.op = "update_tier" /\ UpdateTier(m)
                /\ NeverAccessed(m) /\ m \notin DOMAIN data) =>
                /\ StorageGet(data, m)[m].tier = HOT
                /\ result'.ret.changed
                /\ result'.ret.old_tier = HOT
                /\ result'.ret.new_tier = COLD
                /\ data'[m].tier = COLD]_vars

\* m1, whose file gives the salience 0.6, was never accessed and its first
\* update_tier has taken it from HOT to COLD
C36_Witness ==
    /\ result.op = "update_tier" /\ result.id = "m1"
    /\ result.ret.changed
    /\ result.ret.old_tier = HOT /\ result.ret.new_tier = COLD
    /\ NeverAccessed("m1")
    /\ examples["m1"].gist_salience = 600
    /\ data["m1"].tier = COLD /\ data["m1"].tier_changed = now

\* ===================================================== mirror claims

\* C37: after any sequence of add_link and remove_link calls, with or without
\* a type, bidirectional or not, source and target the same or not, S's
\* outbound list holds an entry to T of type ty exactly when T's inbound list
\* holds an entry from S of type ty; in the manager and in the links file.
C37_MirrorInvariant ==
    \A lk \in {links, links_file} :
        \A S \in MemIds, T \in MemIds, ty \in LinkType :
            HasOutbound(LinksGet(lk, S)[S].outbound, T, ty)
                <=> HasInbound(LinksGet(lk, T)[T].inbound, S, ty)

\* remove_link has removed the link from m2 to m1, and the link from m1 to
\* itself is still in m1's outbound and inbound lists
C37_Witness ==
    /\ result = [op |-> "remove_link", id |-> "m2", ret |-> TRUE]
    /\ HasOutbound(LinksGet(links, "m1")["m1"].outbound, "m1", ELABORATES)
    /\ HasInbound(LinksGet(links, "m1")["m1"].inbound, "m1", ELABORATES)
    /\ LinksGet(links, "m2")["m2"].outbound = <<>>

\* ===================================================== remove_link claims

\* C38: remove_link never touches the reinforcement state: no record of the
\* tracker, in memory or in its file, changes on a remove_link call, so a
\* source that add_link put in the target's linked_by is still there after
\* the link was removed, and the target's link count is the same.
C38_RemoveKeepsLinkedBy ==
    [][result'.op = "remove_link" =>
        /\ tracker' = tracker
        /\ tracking_file' = tracking_file
        /\ \A A \in MemIds, B \in MemIds :
              LinkedBy(tracker, B, A) => LinkedBy(tracker', B, A)
        /\ \A B \in DOMAIN tracker :
              Len(tracker'[B].linked_by) = Len(tracker[B].linked_by)]_vars

\* the link from m2 to m1 has been removed, no link is left anywhere, and m2
\* is still in m1's linked_by
C38_Witness ==
    /\ result = [op |-> "remove_link", id |-> "m2", ret |-> TRUE]
    /\ \A m \in DOMAIN links :
          links[m].outbound = <<>> /\ links[m].inbound = <<>>
    /\ LinkedBy(tracker, "m1", "m2")
    /\ LinkedBy(tracking_file, "m1", "m2")

\* ===================================================== repeated archiving

\* C39 as claimed: archive_verbatim called again on a COLD memory whose
\* verbatim is archived does not overwrite the archived payload, so that a
\* restore_verbatim that succeeds brings back a verbatim, never the
\* placeholder an earlier archive_verbatim left.
C39_Claimed ==
    /\ [][\A m \in MemIds :
            (Archives(m) /\ m \in DOMAIN data /\ data[m].verbatim_archived
                /\ archive[ArchivePath(m)].exists) =>
                archive'[ArchivePath(m)] = archive[ArchivePath(m)]]_vars
    /\ [][\A m \in MemIds :
            (Restores(m) /\ result'.ret = TRUE) =>
                ~IsPlaceholder(examples'[m].verbatim)]_vars

\* ===================================================== re-tiering twice

\* C40 as claimed: update_tier called twice in a row on a memory, with no
\* change to its reinforcement data, its lock or the clock between the calls,
\* reports no change the second time: after every update_tier(m) the tier
\* computed from the stored state is the stored tier.
C40_Claimed ==
    [][\A m \in MemIds : (result'.op = "update_tier" /\ UpdateTier(m)) =>
        LET again == update_tier(data', storage_file', tracker', examples',
                                 m, now')
        IN  /\ again.ret.changed = FALSE
            /\ again.data = data']_vars

====
